---------------------------- MODULE Spec2Model ----------------------------
(***************************************************************************)
(* A model of StegTool's codec core (src/src/core/steganography.py,        *)
(* src/src/core/advanced_algorithms.py) and of its payload protection      *)
(* layer (src/src/core/text_handler.py).                                   *)
(*                                                                         *)
(* Text is a sequence of Unicode code points.  A numpy array is a          *)
(* reference [base, shape] into a heap of sample buffers, so that copying  *)
(* and aliasing are visible: two references share storage exactly when     *)
(* their base is the same buffer.  Samples are kept in flatten (row-major, *)
(* channel innermost) order.                                               *)
(***************************************************************************)
EXTENDS Integers, Sequences, FiniteSets, TLC

(***************************************************************************)
(* Bounds of the exploration.                                              *)
(***************************************************************************)
MaxMsgLen == 2
NumFills == 3
SmallSide == 5
BigSide == 30

(***************************************************************************)
(* Characters and strings.                                                 *)
(***************************************************************************)
\* The characters str.strip() removes (str.isspace), as code points.
Whitespace ==
  (9..13) \cup (28..32) \cup {133, 160, 5760} \cup (8192..8202)
    \cup {8232, 8233, 8239, 8287, 12288}

\* `not message or len(message.strip()) == 0`
IsBlank(message) == \A i \in 1..Len(message) : message[i] \in Whitespace

\* str.endswith
EndsWith(s, suffix) ==
  /\ Len(s) >= Len(suffix)
  /\ \A d \in 1..Len(suffix) : s[Len(s) - Len(suffix) + d] = suffix[d]

\* s[1..k] ends with suffix (the text decoded so far, after k characters)
PrefixEndsWith(s, k, suffix) ==
  /\ k >= Len(suffix)
  /\ \A d \in 1..Len(suffix) : s[k - Len(suffix) + d] = suffix[d]

\* `suffix in s`
Contains(s, sub) == \E k \in 1..Len(s) : PrefixEndsWith(s, k, sub)

Min(S) == CHOOSE x \in S : \A y \in S : x <= y

Pow2(n) == 2 ^ n

\* The number of digits format(n, '08b') prints: 8, or more when n >= 256.
FormatWidth(n) ==
  CHOOSE w \in 8..21 : Pow2(w) > n /\ (w = 8 \/ Pow2(w - 1) <= n)

\* format(ord(char), '08b'): binary digits, most significant first, padded
\* with zeros to at least 8 digits.
Format08b(n) ==
  LET w == FormatWidth(n)
  IN  [i \in 1..w |-> (n \div Pow2(w - i)) % 2]

\* ''.join(format(ord(char), '08b') for char in full_message)
RECURSIVE BinaryMessage(_)
BinaryMessage(full_message) ==
  IF full_message = <<>> THEN <<>>
  ELSE IF Len(full_message) = 1 THEN Format08b(full_message[1])
  ELSE LET half == Len(full_message) \div 2
       IN  BinaryMessage(SubSeq(full_message, 1, half))
             \o BinaryMessage(SubSeq(full_message, half + 1,
                                     Len(full_message)))

\* int(byte, 2) of the j-th complete group of 8 bits
ByteAt(bits, j) ==
  LET b(k) == bits[8 * (j - 1) + k]
  IN  128 * b(1) + 64 * b(2) + 32 * b(3) + 16 * b(4)
        + 8 * b(5) + 4 * b(6) + 2 * b(7) + b(8)

\* chr(int(byte, 2)) for every complete group of 8 bits
CharsOfBits(bits) == [j \in 1..(Len(bits) \div 8) |-> ByteAt(bits, j)]

(***************************************************************************)
(* numpy arrays.                                                           *)
(***************************************************************************)
\* ndarray.size
Size(shape) ==
  IF Len(shape) = 2 THEN shape[1] * shape[2]
  ELSE shape[1] * shape[2] * shape[3]

Max(S) == CHOOSE x \in S : \A y \in S : x >= y

NewId(h) == 1 + Max(DOMAIN h)

Alloc(h, data) == (NewId(h) :> data) @@ h

\* What copy() would be were it a view: the same buffer, nothing allocated.
NpView(h, ref) == [heap |-> h, ref |-> ref]

\* ndarray.copy(): a new buffer with the same samples
NpCopy(h, ref) ==
  [heap |-> Alloc(h, h[ref.base]),
   ref  |-> [base |-> NewId(h), shape |-> ref.shape]]

\* ndarray.flatten(): always a copy, one-dimensional
NpFlatten(h, ref) ==
  [heap |-> Alloc(h, h[ref.base]),
   ref  |-> [base |-> NewId(h), shape |-> <<1, Size(ref.shape)>>]]

\* ndarray.reshape(): a view of the same buffer
NpReshape(ref, shape) == [base |-> ref.base, shape |-> shape]

\* (x & 0xFE) | bit.  0xFE masks the low byte: bits 8 and above are cleared.
SetLSB(x, bit) == ((x % 256) - (x % 2)) + bit

\* pixel_value & 1
LSB(x) == x % 2

\* Results of an operation.
NoResult == [kind |-> "none"]
Raise(type, text) == [kind |-> "error", type |-> type, text |-> text]
ReturnGrid(ref) == [kind |-> "grid", ref |-> ref]
ReturnText(text) == [kind |-> "text", text |-> text]
ReturnBool(b) == [kind |-> "bool", value |-> b]

\* What is left reachable after encode returns: the caller's image (buffer 1)
\* and the buffer of a returned grid, which is renamed to 2; the temporaries
\* are freed.
Collect(r) ==
  IF r.out.kind = "grid" /\ r.out.ref.base # 1
    THEN [heap |-> (1 :> r.heap[1]) @@ (2 :> r.heap[r.out.ref.base]),
          out  |-> ReturnGrid([base |-> 2, shape |-> r.out.ref.shape])]
  ELSE [heap |-> (1 :> r.heap[1]), out |-> r.out]

\* '==': a delimiter made of characters a base64 text can hold.
PaddingDelimiter == <<61, 61>>

(***************************************************************************)
(* LSBAlgorithm                                                            *)
(***************************************************************************)
LSB_DELIMITER ==
  <<35, 35, 35, 69, 78, 68, 95, 79, 70, 95, 77, 69, 83, 83, 65, 71, 69,
    35, 35, 35>>

LSB_can_fit_message(shape, message) ==
  IF Size(shape) = 0 THEN FALSE
  ELSE IF IsBlank(message) THEN FALSE
  ELSE LET full_message == message \o LSB_DELIMITER
           message_bits == Len(full_message) * 8
           available_bits == Size(shape)
       IN  message_bits <= available_bits

\* get_capacity with abs() where the code has max(0, ...)
LSB_capacity_magnitude(shape) ==
  IF Size(shape) = 0 THEN 0
  ELSE LET delimiter_bits == Len(LSB_DELIMITER) * 8
           available_bits == Size(shape) - delimiter_bits
           q == available_bits \div 8
       IN  IF q > 0 THEN q ELSE 0 - q

LSB_get_capacity(shape) ==
  IF Size(shape) = 0 THEN 0
  ELSE LET delimiter_bits == Len(LSB_DELIMITER) * 8
           available_bits == Size(shape) - delimiter_bits
           q == available_bits \div 8
       IN  IF q > 0 THEN q ELSE 0

\* The shape encode returns: (height, width, channels) when channels > 1,
\* else (height, width).
LSB_result_shape(shape) ==
  LET channels == IF Len(shape) > 2 THEN shape[3] ELSE 1
  IN  IF channels > 1 THEN <<shape[1], shape[2], channels>>
      ELSE <<shape[1], shape[2]>>

\* The embedding loop on the flattened copy: bit i goes to sample i.  When
\* the bit string is longer than the buffer, flat_image[i] raises IndexError
\* after the buffer has been filled.
LSB_embed(flat, binary_message) ==
  [i \in 1..Len(flat) |->
     IF i <= Len(binary_message) THEN SetLSB(flat[i], binary_message[i])
     ELSE flat[i]]

LSB_encode(h, image, message) ==
  IF Size(image.shape) = 0
    THEN [heap |-> h, out |-> Raise("ValueError", "Invalid image: empty or None")]
  ELSE IF IsBlank(message)
    THEN [heap |-> h, out |-> Raise("ValueError", "Message cannot be empty")]
  ELSE
    LET full_message == message \o LSB_DELIMITER
        binary_message == BinaryMessage(full_message)
    IN  IF ~LSB_can_fit_message(image.shape, message)
          THEN [heap |-> h,
                out |-> Raise("ValueError", "Message too long for this image")]
        ELSE
          LET stego_image == NpCopy(h, image)
              flat_image == NpFlatten(stego_image.heap, stego_image.ref)
              fb == flat_image.ref.base
              h2 == [flat_image.heap EXCEPT
                       ![fb] = LSB_embed(flat_image.heap[fb], binary_message)]
          IN  IF Len(binary_message) > Len(h2[fb])
                THEN [heap |-> h2,
                      out |-> Raise("IndexError", "index out of bounds")]
              ELSE [heap |-> h2,
                    out |-> ReturnGrid(NpReshape(flat_image.ref,
                                                 LSB_result_shape(image.shape)))]

\* The text decode builds: one character per complete group of 8 LSBs,
\* stopping at the first character after which the text ends with the
\* delimiter; without a delimiter, every character read.
DelimitedText(chars, delimiter) ==
  LET hits == {k \in 1..Len(chars) : PrefixEndsWith(chars, k, delimiter)}
  IN  IF hits = {} THEN chars
      ELSE SubSeq(chars, 1, Min(hits) - Len(delimiter))

LSB_decode(h, image) ==
  IF Size(image.shape) = 0
    THEN Raise("ValueError", "Invalid image: empty or None")
  ELSE
    LET flat_image == h[image.base]
        binary_message == [i \in 1..Len(flat_image) |-> LSB(flat_image[i])]
    IN  ReturnText(DelimitedText(CharsOfBits(binary_message), LSB_DELIMITER))

(***************************************************************************)
(* SimpleDCTAlgorithm and SimpleDWTAlgorithm: the fixed-stride variants.   *)
(* The two classes repeat the same code with (start, stride) = (2, 16) and *)
(* (1, 32).                                                                *)
(***************************************************************************)
STRIDE_DELIMITER == <<35, 35, 35, 69, 78, 68, 35, 35, 35>>

\* The literal decode tests binary_message.endswith(...) against.
STRIDE_PATTERN ==
  <<0,0,1,1,1,0,0,1, 0,0,1,1,0,0,1,0, 0,0,1,1,0,0,1,1, 0,0,1,0,0,1,0,1,
    0,1,0,0,1,1,1,0, 0,1,0,0,0,1,0,0, 0,0,1,1,1,0,0,1, 0,0,1,1,0,0,1,0,
    0,0,1,1,0,0,1,1, 0,0,1,1,1,0,0,1, 0,0,1,1,0,0,1,0, 0,0,1,1,0,0,1,1>>

\* The number of bits decode removes on a match: binary_message[:-72]
STRIDE_STRIP == 72

DCT_START == 2
DCT_STRIDE == 16
DWT_START == 1
DWT_STRIDE == 32

\* len(range(start, n, stride))
RangeLen(start, n, stride) ==
  IF n > start THEN ((n - start - 1) \div stride) + 1 ELSE 0

\* The t-th index of range(start, n, stride), as a position of a sequence
\* that counts from 1.
RangeAt(start, stride, t) == start + 1 + stride * (t - 1)

\* The loop of encode: one bit per visited sample until the bits or the
\* samples run out.
Stride_embed(flat, binary_message, start, stride) ==
  [p \in 1..Len(flat) |->
     IF /\ p > start
        /\ (p - 1 - start) % stride = 0
        /\ ((p - 1 - start) \div stride) + 1 <= Len(binary_message)
       THEN SetLSB(flat[p], binary_message[((p - 1 - start) \div stride) + 1])
     ELSE flat[p]]

Stride_encode(h, image, message, start, stride) ==
  LET full_message == message \o STRIDE_DELIMITER
      binary_message == BinaryMessage(full_message)
      stego_image == NpCopy(h, image)
      flat_image == NpFlatten(stego_image.heap, stego_image.ref)
      fb == flat_image.ref.base
      h2 == [flat_image.heap EXCEPT
               ![fb] = Stride_embed(flat_image.heap[fb], binary_message,
                                    start, stride)]
  IN  [heap |-> h2,
       out  |-> ReturnGrid(NpReshape(flat_image.ref, stego_image.ref.shape))]

\* The loop of decode: after each bit read, test the pattern; on a match drop
\* the last 72 bits and turn the complete groups of 8 into characters.
Stride_decode(h, image, start, stride) ==
  LET flat_image == h[image.base]
      T == RangeLen(start, Len(flat_image), stride)
      bits == [t \in 1..T |-> LSB(flat_image[RangeAt(start, stride, t)])]
      hits == {t \in 1..T : PrefixEndsWith(bits, t, STRIDE_PATTERN)}
  IN  IF hits = {} THEN ReturnText(<<>>)
      ELSE ReturnText(CharsOfBits(SubSeq(bits, 1, Min(hits) - STRIDE_STRIP)))

Stride_can_fit_message(shape, message, stride) ==
  LET full_message == message \o STRIDE_DELIMITER
      message_bits == Len(full_message) * 8
      available_bits == Size(shape) \div stride
  IN  message_bits <= available_bits

\* get_capacity without the delimiter's bits taken off
Stride_capacity_unreserved(shape, stride) ==
  LET available_bits == Size(shape) \div stride
      q == available_bits \div 8
  IN  IF q > 0 THEN q ELSE 0

Stride_get_capacity(shape, stride) ==
  LET available_bits == (Size(shape) \div stride) - 72
      q == available_bits \div 8
  IN  IF q > 0 THEN q ELSE 0

SimpleDCT_encode(h, image, message) ==
  Stride_encode(h, image, message, DCT_START, DCT_STRIDE)

SimpleDCT_decode(h, image) == Stride_decode(h, image, DCT_START, DCT_STRIDE)

SimpleDCT_can_fit_message(shape, message) ==
  Stride_can_fit_message(shape, message, DCT_STRIDE)

SimpleDCT_get_capacity(shape) == Stride_get_capacity(shape, DCT_STRIDE)

SimpleDWT_encode(h, image, message) ==
  Stride_encode(h, image, message, DWT_START, DWT_STRIDE)

SimpleDWT_decode(h, image) == Stride_decode(h, image, DWT_START, DWT_STRIDE)

SimpleDWT_can_fit_message(shape, message) ==
  Stride_can_fit_message(shape, message, DWT_STRIDE)

SimpleDWT_get_capacity(shape) == Stride_get_capacity(shape, DWT_STRIDE)

(***************************************************************************)
(* AdaptiveLSBAlgorithm                                                    *)
(***************************************************************************)
ADAPTIVE_DELIMITER ==
  <<35, 35, 35, 65, 68, 65, 80, 84, 73, 86, 69, 95, 69, 78, 68, 35, 35, 35>>

\* edge_threshold, the constructor's default
EDGE_THRESHOLD == 30

Height(shape) == shape[1]
Width(shape) == shape[2]
Channels(shape) == IF Len(shape) > 2 THEN shape[3] ELSE 1

\* The sample at row y, column x, channel c (all counted from 0).
SampleAt(data, shape, y, x, c) ==
  data[(y * Width(shape) + x) * Channels(shape) + c + 1]

\* ndimage's default boundary mode, 'reflect': index -1 is 0, index n is n-1.
Reflect(i, n) == IF i < 0 THEN 0 ELSE IF i >= n THEN n - 1 ELSE i

\* np.mean(image, axis=2) times the channel count: the channel sums of the
\* pixels in row-major order, which keeps the arithmetic in the integers.
GraySum(data, shape) ==
  LET C == Channels(shape)
      RECURSIVE Sum(_, _)
      Sum(q, c) == IF c = 0 THEN 0 ELSE data[(q - 1) * C + c] + Sum(q, c - 1)
  IN  [q \in 1..(Height(shape) * Width(shape)) |-> Sum(q, C)]

\* gray[y, x] with the boundary reflected
GrayAt(gray, shape, y, x) ==
  gray[Reflect(y, Height(shape)) * Width(shape) + Reflect(x, Width(shape)) + 1]

\* ndimage.sobel(gray, axis=1): the difference [-1, 0, 1] along the columns,
\* smoothed by [1, 2, 1] along the rows (times the channel count).
SobelX(gray, shape, y, x) ==
  LET d(yy) == GrayAt(gray, shape, yy, x + 1) - GrayAt(gray, shape, yy, x - 1)
  IN  d(y - 1) + 2 * d(y) + d(y + 1)

\* ndimage.sobel(gray, axis=0)
SobelY(gray, shape, y, x) ==
  LET d(xx) == GrayAt(gray, shape, y + 1, xx) - GrayAt(gray, shape, y - 1, xx)
  IN  d(x - 1) + 2 * d(x) + d(x + 1)

\* _detect_edges at pixel (y, x): sqrt(sobel_x**2 + sobel_y**2) > threshold.
\* A three-dimensional image is averaged over its channels in float64.  A
\* two-dimensional uint8 image is used as it is, and sobel, the squares and
\* their sum then stay uint8: the sum is at most 255 and its root below 16,
\* so with the default threshold no pixel is an edge.
EdgeAt(gray, shape, y, x) ==
  IF Len(shape) = 3
    THEN LET sx == SobelX(gray, shape, y, x)
             sy == SobelY(gray, shape, y, x)
             t  == EDGE_THRESHOLD * Channels(shape)
         IN  \* a gradient beyond the threshold decides without the squares
             \/ sx > t \/ -sx > t \/ sy > t \/ -sy > t
             \/ sx * sx + sy * sy > t * t
  ELSE FALSE

\* The pixels (row-major, counted from 1) where the edge mask is true.
_detect_edges(data, shape) ==
  LET W == Width(shape)
      gray == GraySum(data, shape)
      IsEdge(q) == EdgeAt(gray, shape, (q - 1) \div W, (q - 1) % W)
  IN  SelectSeq([q \in 1..(Height(shape) * W) |-> q], IsEdge)

\* edge_positions[i] as an index into the samples: the channels are the
\* outer loop, the edge pixels in row-major order the inner one.
EdgePosition(edges, shape, i) ==
  LET c == (i - 1) \div Len(edges)
      q == edges[((i - 1) % Len(edges)) + 1]
  IN  (q - 1) * Channels(shape) + c + 1

\* len(edge_positions)
EdgePositionCount(edges, shape) == Len(edges) * Channels(shape)

Adaptive_can_fit_message(data, shape, message) ==
  IF Size(shape) = 0 THEN FALSE
  ELSE IF IsBlank(message) THEN FALSE
  ELSE LET full_message == message \o ADAPTIVE_DELIMITER
           message_bits == Len(full_message) * 8
           edge_count == IF Len(shape) = 3
                           THEN Len(_detect_edges(data, shape)) * shape[3]
                         ELSE Len(_detect_edges(data, shape))
       IN  message_bits <= edge_count

\* The embedding loop: bit i goes to edge_positions[i]; it stops with an
\* error at the first bit that has no position.
Adaptive_embed(stego, edges, shape, binary_message) ==
  LET n == IF Len(binary_message) <= EdgePositionCount(edges, shape)
             THEN Len(binary_message)
           ELSE EdgePositionCount(edges, shape)
      written == {EdgePosition(edges, shape, i) : i \in 1..n}
      bitAt(p) == binary_message[CHOOSE i \in 1..n :
                                   EdgePosition(edges, shape, i) = p]
  IN  [p \in 1..Len(stego) |->
         IF p \in written THEN SetLSB(stego[p], bitAt(p)) ELSE stego[p]]

Adaptive_encode(h, image, message) ==
  IF Size(image.shape) = 0
    THEN [heap |-> h, out |-> Raise("ValueError", "Invalid image: empty or None")]
  ELSE IF IsBlank(message)
    THEN [heap |-> h, out |-> Raise("ValueError", "Message cannot be empty")]
  ELSE
    LET full_message == message \o ADAPTIVE_DELIMITER
        binary_message == BinaryMessage(full_message)
    IN  IF ~Adaptive_can_fit_message(h[image.base], image.shape, message)
          THEN [heap |-> h,
                out |-> Raise("ValueError", "Message too long for this image")]
        ELSE
          LET edge_mask == _detect_edges(h[image.base], image.shape)
              stego_image == NpCopy(h, image)
              sb == stego_image.ref.base
              h2 == [stego_image.heap EXCEPT
                       ![sb] = Adaptive_embed(stego_image.heap[sb], edge_mask,
                                              image.shape, binary_message)]
          IN  IF Len(binary_message) > EdgePositionCount(edge_mask, image.shape)
                THEN [heap |-> h2,
                      out |-> Raise("ValueError",
                                    "Not enough edge pixels for message")]
              ELSE [heap |-> h2, out |-> ReturnGrid(stego_image.ref)]

\* decode detects the edges of the grid it is given, reads the low bit of
\* each edge position in the order encode lists them, and cuts the text at
\* the delimiter as LSB decode does.
Adaptive_decode(h, image) ==
  IF Size(image.shape) = 0
    THEN Raise("ValueError", "Invalid image: empty or None")
  ELSE
    LET data == h[image.base]
        edge_mask == _detect_edges(data, image.shape)
        binary_bits ==
          [i \in 1..EdgePositionCount(edge_mask, image.shape) |->
             LSB(data[EdgePosition(edge_mask, image.shape, i)])]
    IN  ReturnText(DelimitedText(CharsOfBits(binary_bits), ADAPTIVE_DELIMITER))

(***************************************************************************)
(* DCTAlgorithm: the block-coefficient algorithm.  The storage it reads    *)
(* and writes, its checks and its capacity are modelled as coded.  The     *)
(* numbers the floating point transform and its inverse leave in a block   *)
(* are not computed: a block that received bits comes back with each       *)
(* sample moved by a bounded amount, the parameter noise.                  *)
(***************************************************************************)
DCT_DELIMITER == <<35, 35, 35, 68, 67, 84, 95, 69, 78, 68, 35, 35, 35>>

BLOCK_SIZE == 8

\* _get_embeddable_coefficients: the positions (i, j), 1 <= i, j < 6, i + j < 8
EmbeddableCoefficients ==
  {ij \in (1..5) \X (1..5) : ij[1] + ij[2] < 8}

BlockDCT_available_bits(shape) ==
  LET blocks_h == Height(shape) \div BLOCK_SIZE
      blocks_w == Width(shape) \div BLOCK_SIZE
      total_blocks == blocks_h * blocks_w * Channels(shape)
      coeffs_per_block == Cardinality(EmbeddableCoefficients)
  IN  total_blocks * coeffs_per_block

BlockDCT_can_fit_message(shape, message) ==
  IF Size(shape) = 0 THEN FALSE
  ELSE IF IsBlank(message) THEN FALSE
  ELSE LET full_message == message \o DCT_DELIMITER
           message_bits == Len(full_message) * 8
       IN  message_bits <= BlockDCT_available_bits(shape)

BlockDCT_get_capacity(shape) ==
  IF Size(shape) = 0 THEN 0
  ELSE LET delimiter_bits == Len(DCT_DELIMITER) * 8
           q == (BlockDCT_available_bits(shape) - delimiter_bits) \div 8
       IN  IF q > 0 THEN q ELSE 0

\* np.clip(x, 0, 255)
Clip(v) == IF v < 0 THEN 0 ELSE IF v > 255 THEN 255 ELSE v

\* The number of the 8x8 block (channel, then block row, then block column,
\* from 0) that holds sample p; -1 for a sample of a partial trailing block.
BlockOf(shape, p) ==
  LET C == Channels(shape)
      c == (p - 1) % C
      q == (p - 1) \div C
      y == q \div Width(shape)
      x == q % Width(shape)
      blocks_h == Height(shape) \div BLOCK_SIZE
      blocks_w == Width(shape) \div BLOCK_SIZE
  IN  IF y < blocks_h * BLOCK_SIZE /\ x < blocks_w * BLOCK_SIZE
        THEN c * blocks_h * blocks_w + (y \div BLOCK_SIZE) * blocks_w
               + (x \div BLOCK_SIZE)
      ELSE -1

\* The samples of the result: those of the blocks visited before the bits
\* ran out are rewritten from the inverse transform, the others come back
\* from float64 as they were.
BlockDCT_result(data, shape, binary_message, noise) ==
  LET per == Cardinality(EmbeddableCoefficients)
      used == (Len(binary_message) + per - 1) \div per
  IN  [p \in 1..Len(data) |->
         IF BlockOf(shape, p) >= 0 /\ BlockOf(shape, p) < used
           THEN Clip(data[p] + noise * ((p % 3) - 1))
         ELSE data[p]]

BlockDCT_encode(h, image, message, noise) ==
  IF Size(image.shape) = 0
    THEN [heap |-> h, out |-> Raise("ValueError", "Invalid image: empty or None")]
  ELSE IF IsBlank(message)
    THEN [heap |-> h, out |-> Raise("ValueError", "Message cannot be empty")]
  ELSE
    LET full_message == message \o DCT_DELIMITER
        binary_message == BinaryMessage(full_message)
    IN  IF ~BlockDCT_can_fit_message(image.shape, message)
          THEN [heap |-> h,
                out |-> Raise("ValueError", "Message too long for this image")]
        ELSE
          \* image.astype(np.float64): a new buffer
          LET stego_image == NpCopy(h, image)
              sb == stego_image.ref.base
              h2 == [stego_image.heap EXCEPT
                       ![sb] = BlockDCT_result(stego_image.heap[sb], image.shape,
                                               binary_message, noise)]
              \* np.clip(stego_image, 0, 255).astype(image.dtype): a new buffer
              result == NpCopy(h2, stego_image.ref)
          IN  [heap |-> result.heap,
               out  |-> ReturnGrid(NpReshape(result.ref, image.shape))]

(***************************************************************************)
(* The inputs explored.                                                    *)
(***************************************************************************)
\* 'h' and the euro sign (U+20AC, three bytes in UTF-8)
Alphabet == {104, 8364}

BlankMsg == <<32>>
DelimMsg == <<104>> \o LSB_DELIMITER \o <<105>>
PatternMsg == <<57, 50, 51, 37, 78, 68, 57, 50, 51, 57, 50, 51>>
LongMsg == [i \in 1..18 |-> 104]

Messages ==
  UNION {[1..n -> Alphabet] : n \in 0..MaxMsgLen}
    \cup {BlankMsg, DelimMsg, PatternMsg, LongMsg}

Shapes ==
  {<<SmallSide, SmallSide, 3>>, <<8, 7, 3>>, <<10, 10>>, <<BigSide, BigSide, 3>>}

\* Sample p of the k-th carrier: all 0, all 255, or a mixed pattern.  The
\* carriers 10 and 11 are for the analysis: every third sample odd, and a
\* ramp of 32 even values.  The carrier 16 is a 16-bit grid (dtype uint16):
\* every sample is 256 or more.  The carrier 17 is a smooth three-channel
\* ramp along the rows of a grid BigSide wide: 4 a column in the first two
\* channels and 3.5 a column in the third, so the mean rises by 23/3 over two
\* columns and the Sobel magnitude of an inner pixel is 30.67.
Fill(k, p) ==
  IF k = 0 THEN 0
  ELSE IF k = 1 THEN 255
  ELSE IF k = 16 THEN 256 + ((p * 2571) % 65280)
  ELSE IF k = 17
    THEN LET x == ((p - 1) \div 3) % BigSide
         IN  IF (p - 1) % 3 < 2 THEN 4 * x ELSE (7 * x) \div 2
  ELSE IF k = 10 THEN (IF p % 3 = 0 THEN 1 ELSE 0)
  ELSE IF k = 11 THEN (p % 32) * 2
  ELSE (p * 37 + (p \div 3) * 101 + (p \div 7) * 59 + k) % 256

GridData(shape, k) == [p \in 1..Size(shape) |-> Fill(k, p)]

\* The images the codec is run on: every shape with each 8-bit carrier, and
\* one 16-bit image and one ramp.
Carriers ==
  (Shapes \X (0..(NumFills - 1)))
    \cup {<<<<8, 7, 3>>, 16>>, <<<<BigSide, BigSide, 3>>, 17>>}

\* The perturbations a block may come back with from the inverse transform.
Noise == {-2, 2}

(***************************************************************************)
(* SteganographyEngine and the codec's state.                              *)
(*   heap     the sample buffers: 1 is the caller's image, 2 the grid the  *)
(*            last encode returned                                         *)
(*   image    the caller's array                                           *)
(*   fill     which carrier the image was loaded from                      *)
(*   message  the text to hide                                             *)
(*   current  SteganographyEngine._current_algorithm                       *)
(*   stego    what the last encode returned or raised                      *)
(*   used     the algorithm that ran the last encode                       *)
(*   decoded  what the last decode returned or raised                      *)
(***************************************************************************)
VARIABLES heap, image, fill, message, current, stego, used, decoded

codecVars == <<heap, image, fill, message, current, stego, used, decoded>>

(***************************************************************************)
(* The state of a use of TextHandler.                                      *)
(*   plain      the message given to prepare_message                       *)
(*   secret     the password given to prepare_message                      *)
(*   token_salt, token_iv                                                  *)
(*              what secrets.token_bytes returned in _encrypt_aes          *)
(*   warned     whether _validate_password logged the weak-password warning*)
(*   wrap       prepare_message's encode_base64                            *)
(*   blob       what prepare_message returned or raised                    *)
(*   given      the text given to process_decoded_message                  *)
(*   tried      the password given to process_decoded_message              *)
(*   unwrap     process_decoded_message's decode_base64                    *)
(*   recovered  what process_decoded_message returned or raised            *)
(***************************************************************************)
VARIABLES plain, secret, token_salt, token_iv, warned, wrap, blob, given,
          tried, unwrap, recovered

textVars ==
  <<plain, secret, token_salt, token_iv, warned, wrap, blob, given, tried,
    unwrap, recovered>>

(***************************************************************************)
(* The state of a use of one algorithm's capacity methods.                 *)
(*   algorithm  the class of the algorithm instance the methods are        *)
(*              called on                                                  *)
(*   fit        what can_fit_message(image, message) returned              *)
(*   room       what get_capacity(image) returned                          *)
(*   earlier    the sample count and the capacity of the grid measured     *)
(*              before the present one                                     *)
(***************************************************************************)
VARIABLES algorithm, fit, room, earlier

capacityVars == <<algorithm, fit, room, earlier>>

(***************************************************************************)
(* The registry of a SteganographyEngine.                                  *)
(*   registry  SteganographyEngine._algorithms: name to the class of the   *)
(*             instance registered under it                                *)
(*   reply     what the last call of the engine returned or raised         *)
(***************************************************************************)
VARIABLES registry, reply

registryVars == <<registry, reply>>

(***************************************************************************)
(* The state of a use of ImageSteganalysis.                                *)
(*   HAS_SCIPY  whether the import of scipy.stats succeeded                *)
(*   scores     for each method called so far, what its first call         *)
(*              returned                                                   *)
(*   latest     the method called last and what it returned                *)
(***************************************************************************)
VARIABLES HAS_SCIPY, scores, latest

analysisVars == <<HAS_SCIPY, scores, latest>>

(***************************************************************************)
(* The state of a use of validate_message.                                 *)
(*   candidate  the message given                                          *)
(*   limit      max_length: None or an integer                             *)
(*   verdict    the validator called and what it returned                  *)
(***************************************************************************)
VARIABLES candidate, limit, verdict

checkVars == <<candidate, limit, verdict>>

(***************************************************************************)
(* The worker threads of the main window, which share its engine.          *)
(*   workers  for each running worker: where it is in its function, the    *)
(*            algorithm its combobox holds, the algorithm the engine ran   *)
(*            for it, and what it showed the user                          *)
(***************************************************************************)
VARIABLES workers

(***************************************************************************)
(* The state of a batch run of BatchProcessor.                             *)
(*   batch  the files given, the results collected so far, and the calls   *)
(*          of the progress callback                                       *)
(***************************************************************************)
VARIABLES batch

vars ==
  <<codecVars, textVars, capacityVars, registryVars, analysisVars, checkVars,
    workers, batch>>

\* What a use of one part leaves alone.
notCodec ==
  <<textVars, capacityVars, registryVars, analysisVars, checkVars, workers, batch>>
notText ==
  <<codecVars, capacityVars, registryVars, analysisVars, checkVars, workers, batch>>
notCapacity ==
  <<textVars, registryVars, analysisVars, checkVars, workers, batch>>
notRegistry ==
  <<textVars, capacityVars, analysisVars, checkVars, workers, batch>>
notAnalysis ==
  <<textVars, capacityVars, registryVars, checkVars, workers, batch>>
notCheck ==
  <<codecVars, textVars, capacityVars, registryVars, analysisVars, workers, batch>>

notWorkers ==
  <<textVars, capacityVars, registryVars, analysisVars, checkVars, batch>>
notBatch ==
  <<codecVars, textVars, capacityVars, registryVars, analysisVars, checkVars,
    workers>>

\* No worker thread has been started, and no batch.
WorkersIdle == workers = <<>>
BatchIdle == batch = <<>>

\* Nothing has been given to TextHandler.
TextIdle ==
  /\ plain = <<>>
  /\ secret = <<>>
  /\ token_salt = <<>>
  /\ token_iv = <<>>
  /\ warned = FALSE
  /\ wrap = FALSE
  /\ blob = NoResult
  /\ given = <<>>
  /\ tried = <<>>
  /\ unwrap = FALSE
  /\ recovered = NoResult

\* SteganographyEngine.__init__ and _register_algorithms
DefaultAlgorithms == {"lsb", "dct", "dwt"}

\* self._algorithms after __init__, a dict in insertion order: each default
\* name holds an instance of its own class.  A class is written as the name
\* it is registered under by default; "adaptive_lsb" and "dct_block" are
\* AdaptiveLSBAlgorithm and DCTAlgorithm.
DefaultRegistry ==
  <<[name |-> "lsb", class |-> "lsb"], [name |-> "dct", class |-> "dct"],
    [name |-> "dwt", class |-> "dwt"]>>

\* No capacity method has been called.
CapacityIdle ==
  /\ algorithm = "lsb"
  /\ fit = NoResult
  /\ room = NoResult
  /\ earlier = NoResult

\* The engine is as __init__ left it.
RegistryIdle ==
  /\ registry = DefaultRegistry
  /\ reply = NoResult

\* No analysis has run.
AnalysisIdle ==
  /\ HAS_SCIPY = FALSE
  /\ scores = <<>>
  /\ latest = NoResult

\* Nothing has been validated.
CheckIdle ==
  /\ candidate = <<>>
  /\ limit = NoResult
  /\ verdict = NoResult

Init ==
  /\ \E carrier \in Carriers :
       /\ image = [base |-> 1, shape |-> carrier[1]]
       /\ fill = carrier[2]
       /\ heap = (1 :> GridData(carrier[1], carrier[2]))
  /\ message \in Messages
  /\ current = "lsb"
  /\ stego = NoResult
  /\ used = "none"
  /\ decoded = NoResult
  /\ TextIdle
  /\ CapacityIdle
  /\ RegistryIdle
  /\ AnalysisIdle
  /\ CheckIdle
  /\ WorkersIdle
  /\ BatchIdle

\* algorithm.encode of the registered algorithm `name`
AlgorithmEncode(name, h, img, msg) ==
  IF name = "lsb" THEN LSB_encode(h, img, msg)
  ELSE IF name = "dct" THEN SimpleDCT_encode(h, img, msg)
  ELSE SimpleDWT_encode(h, img, msg)

\* algorithm.decode of the registered algorithm `name`
AlgorithmDecode(name, h, img) ==
  IF name = "lsb" THEN LSB_decode(h, img)
  ELSE IF name = "dct" THEN SimpleDCT_decode(h, img)
  ELSE SimpleDWT_decode(h, img)

\* algorithm.can_fit_message of the registered algorithm `name`
AlgorithmCanFit(name, shape, msg) ==
  IF name = "lsb" THEN LSB_can_fit_message(shape, msg)
  ELSE IF name = "dct" THEN SimpleDCT_can_fit_message(shape, msg)
  ELSE SimpleDWT_can_fit_message(shape, msg)

\* set_algorithm(name), for a registered name.  The records of the last
\* encode and decode start afresh with the selection.
SetAlgorithm(name) ==
  /\ name \in DefaultAlgorithms
  /\ name # current
  /\ current' = name
  /\ heap' = (1 :> heap[1])
  /\ stego' = NoResult
  /\ used' = "none"
  /\ decoded' = NoResult
  /\ UNCHANGED <<image, fill, message>>
  /\ UNCHANGED notCodec

\* encode_message(image, message): the selected algorithm's encode
EncodeMessage ==
  /\ stego.kind = "none"
  /\ decoded.kind = "none"
  /\ LET r == Collect(AlgorithmEncode(current, heap, image, message))
     IN  /\ heap' = r.heap
         /\ stego' = r.out
  /\ used' = current
  /\ UNCHANGED <<image, fill, message, current, decoded>>
  /\ UNCHANGED notCodec

\* decode_message(grid): the selected algorithm's decode, of the grid the
\* last encode returned or, when nothing was encoded, of the caller's image
DecodeMessage ==
  /\ decoded.kind = "none"
  /\ \/ stego.kind = "none"
     \/ stego.kind = "grid" /\ used = current
  /\ decoded' = AlgorithmDecode(current, heap,
                                IF stego.kind = "grid" THEN stego.ref ELSE image)
  /\ UNCHANGED <<heap, image, fill, message, current, stego, used>>
  /\ UNCHANGED notCodec

\* AdaptiveLSBAlgorithm().encode(image, message), called on the algorithm
AdaptiveEncode ==
  /\ stego.kind = "none"
  /\ decoded.kind = "none"
  /\ LET r == Collect(Adaptive_encode(heap, image, message))
     IN  /\ heap' = r.heap
         /\ stego' = r.out
  /\ used' = "adaptive_lsb"
  /\ UNCHANGED <<image, fill, message, current, decoded>>
  /\ UNCHANGED notCodec

\* AdaptiveLSBAlgorithm().decode(grid), of the grid its encode returned
AdaptiveDecode ==
  /\ decoded.kind = "none"
  /\ stego.kind = "grid"
  /\ used = "adaptive_lsb"
  /\ decoded' = Adaptive_decode(heap, stego.ref)
  /\ UNCHANGED <<heap, image, fill, message, current, stego, used>>
  /\ UNCHANGED notCodec

\* DCTAlgorithm().encode(image, message), called on the algorithm
BlockDCTEncode ==
  /\ stego.kind = "none"
  /\ decoded.kind = "none"
  /\ \E noise \in Noise :
       LET r == Collect(BlockDCT_encode(heap, image, message, noise))
       IN  /\ heap' = r.heap
           /\ stego' = r.out
  /\ used' = "dct_block"
  /\ UNCHANGED <<image, fill, message, current, decoded>>
  /\ UNCHANGED notCodec

Next ==
  \/ \E name \in DefaultAlgorithms : SetAlgorithm(name)
  \/ EncodeMessage
  \/ DecodeMessage
  \/ AdaptiveEncode
  \/ AdaptiveDecode
  \/ BlockDCTEncode

Spec == Init /\ [][Next]_vars

(***************************************************************************)
(* Properties of the codec.                                                *)
(***************************************************************************)
Range(f) == {f[i] : i \in DOMAIN f}

\* The grid the last decode read.
DecodedGrid == IF stego.kind = "grid" THEN heap[stego.ref.base] ELSE heap[image.base]

\* The text the LSBs of `data` spell, one character per 8 samples.
LSBText(data) == CharsOfBits([i \in 1..Len(data) |-> LSB(data[i])])

\* "Message too long for this image"
IsCapacityError(r) ==
  /\ r.kind = "error"
  /\ r.type = "ValueError"
  /\ r.text = "Message too long for this image"

\* C1: LSB round-trip.  For a grid of at least 8*(len(message)+20) samples
\* and a message that is not blank and holds no NUL, LSB encode returns a
\* grid, and LSB decode of that grid returns exactly the message.
C1_LSBRoundTrip ==
  ( /\ used = "lsb"
    /\ ~IsBlank(message)
    /\ 0 \notin Range(message)
    /\ Size(image.shape) >= 8 * (Len(message) + Len(LSB_DELIMITER)) )
  => /\ stego.kind = "grid"
     /\ decoded.kind # "none" => (decoded.kind = "text" /\ decoded.text = message)

\* C2: LSB decode of a grid whose LSB text never ends with the delimiter at
\* a byte boundary raises an error; it returns no text.
C2_NoDelimiterRaises ==
  ( /\ current = "lsb"
    /\ decoded.kind # "none"
    /\ ~Contains(LSBText(DecodedGrid), LSB_DELIMITER) )
  => decoded.kind = "error"

\* C3: no encode of any algorithm changes a sample of the caller's grid,
\* whether it returns or raises, and a returned grid has a buffer of its own.
C3_EncodeLeavesInput ==
  /\ heap[image.base] = GridData(image.shape, fill)
  /\ stego.kind = "grid" => stego.ref.base # image.base

\* An encode that wrote bits returned a grid that differs from the input.
C3_Witness ==
  /\ used = "adaptive_lsb"
  /\ stego.kind = "grid"
  /\ heap[stego.ref.base] # heap[image.base]

\* C4: LSB encode of a (non-blank) message whose bits, delimiter included,
\* outnumber the samples fails with the capacity error and returns no grid.
C4_LSBCapacityError ==
  ( /\ used = "lsb"
    /\ ~IsBlank(message)
    /\ Len(BinaryMessage(message \o LSB_DELIMITER)) > Size(image.shape) )
  => IsCapacityError(stego)

\* C5: fixed-stride round-trip.  For a grid and message the variant's
\* can_fit_message accepts, decode of encode's grid returns the message.
C5_StrideRoundTrip ==
  ( /\ used \in {"dct", "dwt"}
    /\ decoded.kind # "none"
    /\ AlgorithmCanFit(used, image.shape, message) )
  => (decoded.kind = "text" /\ decoded.text = message)

\* C6: an encode dispatched through the engine with a message the selected
\* algorithm's can_fit_message rejects raises an error; it returns no grid.
C6_NoSilentTruncation ==
  ( /\ used \in DefaultAlgorithms
    /\ ~AlgorithmCanFit(used, image.shape, message) )
  => stego.kind = "error"

(***************************************************************************)
(* TextHandler: the payload protection layer.                              *)
(* Bytes are the integers 0..255.  The two primitives of the cryptography  *)
(* package are stood in for by functions with the same contract and the    *)
(* same sizes: PBKDF2-HMAC-SHA256 by a deterministic function of password  *)
(* and salt that yields KEY_SIZE bytes, AES by a keyed permutation of      *)
(* 16-byte blocks.  CBC chaining, padding, the blob layout, base64 and     *)
(* UTF-8 are modelled as coded.                                            *)
(***************************************************************************)
SALT_SIZE == 32
IV_SIZE == 16
KEY_SIZE == 32
AES_BLOCK == 16

\* a ^ b on bytes
RECURSIVE XorBits(_, _, _)
XorBits(a, b, n) ==
  IF n = 0 THEN 0
  ELSE ((a + b) % 2) + 2 * XorBits(a \div 2, b \div 2, n - 1)

Xor(a, b) == XorBits(a, b, 8)

\* The UTF-8 bytes of one code point.
UTF8Char(cp) ==
  IF cp < 128 THEN <<cp>>
  ELSE IF cp < 2048 THEN <<192 + (cp \div 64), 128 + (cp % 64)>>
  ELSE IF cp < 65536
    THEN <<224 + (cp \div 4096), 128 + ((cp \div 64) % 64), 128 + (cp % 64)>>
  ELSE <<240 + (cp \div 262144), 128 + ((cp \div 4096) % 64),
         128 + ((cp \div 64) % 64), 128 + (cp % 64)>>

\* str.encode('utf-8') raises UnicodeEncodeError on a surrogate.
CanEncodeUTF8(text) ==
  \A i \in 1..Len(text) : ~(text[i] >= 55296 /\ text[i] <= 57343)

\* str.encode('utf-8'): the bytes of the code points, in order
RECURSIVE UTF8Encode(_)
UTF8Encode(text) ==
  IF text = <<>> THEN <<>>
  ELSE IF Len(text) = 1 THEN UTF8Char(text[1])
  ELSE LET half == Len(text) \div 2
       IN  UTF8Encode(SubSeq(text, 1, half))
             \o UTF8Encode(SubSeq(text, half + 1, Len(text)))

IsCont(b) == b >= 128 /\ b <= 191

\* The length of the well-formed UTF-8 sequence that starts at byte i of
\* bytes, or 0 when there is none (overlong forms, surrogates and code points
\* above U+10FFFF are ill-formed).
UTF8SeqLen(bytes, i) ==
  LET n == Len(bytes)
      b0 == bytes[i]
      b1 == IF i + 1 <= n THEN bytes[i + 1] ELSE 0
      b2 == IF i + 2 <= n THEN bytes[i + 2] ELSE 0
      b3 == IF i + 3 <= n THEN bytes[i + 3] ELSE 0
  IN  IF b0 < 128 THEN 1
      ELSE IF b0 >= 194 /\ b0 <= 223 THEN (IF IsCont(b1) THEN 2 ELSE 0)
      ELSE IF b0 = 224
        THEN (IF b1 >= 160 /\ b1 <= 191 /\ IsCont(b2) THEN 3 ELSE 0)
      ELSE IF b0 = 237
        THEN (IF b1 >= 128 /\ b1 <= 159 /\ IsCont(b2) THEN 3 ELSE 0)
      ELSE IF b0 >= 225 /\ b0 <= 239
        THEN (IF IsCont(b1) /\ IsCont(b2) THEN 3 ELSE 0)
      ELSE IF b0 = 240
        THEN (IF b1 >= 144 /\ b1 <= 191 /\ IsCont(b2) /\ IsCont(b3)
                THEN 4 ELSE 0)
      ELSE IF b0 >= 241 /\ b0 <= 243
        THEN (IF IsCont(b1) /\ IsCont(b2) /\ IsCont(b3) THEN 4 ELSE 0)
      ELSE IF b0 = 244
        THEN (IF b1 >= 128 /\ b1 <= 143 /\ IsCont(b2) /\ IsCont(b3)
                THEN 4 ELSE 0)
      ELSE 0

\* The code point of the well-formed sequence of length k at byte i.
UTF8CodePoint(bytes, i, k) ==
  IF k = 1 THEN bytes[i]
  ELSE IF k = 2 THEN (bytes[i] - 192) * 64 + (bytes[i + 1] - 128)
  ELSE IF k = 3
    THEN (bytes[i] - 224) * 4096 + (bytes[i + 1] - 128) * 64
           + (bytes[i + 2] - 128)
  ELSE (bytes[i] - 240) * 262144 + (bytes[i + 1] - 128) * 4096
         + (bytes[i + 2] - 128) * 64 + (bytes[i + 3] - 128)

\* bytes.decode('utf-8'): [ok, text]; ok is FALSE where Python raises
\* UnicodeDecodeError.  The bytes are well formed when every byte that is not
\* a continuation byte starts a well-formed sequence and every continuation
\* byte lies inside one; the text is then the code points of the sequences.
UTF8Decode(bytes) ==
  LET n == Len(bytes)
      leads == SelectSeq([i \in 1..n |-> i], LAMBDA i : ~IsCont(bytes[i]))
      covered(j) ==
        \E i \in 1..n :
           /\ i < j
           /\ j - i <= 3
           /\ ~IsCont(bytes[i])
           /\ i + UTF8SeqLen(bytes, i) > j
      ok == /\ \A t \in 1..Len(leads) : UTF8SeqLen(bytes, leads[t]) > 0
            /\ \A j \in 1..n : IsCont(bytes[j]) => covered(j)
  IN  IF ok
        THEN [ok |-> TRUE,
              text |-> [t \in 1..Len(leads) |->
                          UTF8CodePoint(bytes, leads[t],
                                        UTF8SeqLen(bytes, leads[t]))]]
      ELSE [ok |-> FALSE, text |-> <<>>]

\* The base64 alphabet: the character (a code point) of a 6-bit value.
B64Char(v) ==
  IF v < 26 THEN 65 + v
  ELSE IF v < 52 THEN 97 + (v - 26)
  ELSE IF v < 62 THEN 48 + (v - 52)
  ELSE IF v = 62 THEN 43
  ELSE 47

B64_PAD == 61

\* The 6-bit value of a character, 64 for a character outside the alphabet.
B64Value(c) ==
  IF c >= 65 /\ c <= 90 THEN c - 65
  ELSE IF c >= 97 /\ c <= 122 THEN c - 71
  ELSE IF c >= 48 /\ c <= 57 THEN c + 4
  ELSE IF c = 43 THEN 62
  ELSE IF c = 47 THEN 63
  ELSE 64

\* base64.b64encode(data).decode('ascii')
B64Encode(bytes) ==
  LET n == Len(bytes)
      at(i) == IF i <= n THEN bytes[i] ELSE 0
      char(j) ==
        LET g == (j - 1) \div 4
            r == (j - 1) % 4
            have == n - 3 * g
            b0 == at(3 * g + 1)
            b1 == at(3 * g + 2)
            b2 == at(3 * g + 3)
        IN  IF r = 0 THEN B64Char(b0 \div 4)
            ELSE IF r = 1 THEN B64Char((b0 % 4) * 16 + (b1 \div 16))
            ELSE IF r = 2
              THEN (IF have >= 2 THEN B64Char((b1 % 16) * 4 + (b2 \div 64))
                    ELSE B64_PAD)
            ELSE (IF have >= 3 THEN B64Char(b2 % 64) ELSE B64_PAD)
  IN  [j \in 1..(4 * ((n + 2) \div 3)) |-> char(j)]

\* binascii.a2b_base64 without strict mode: [ok, err, bytes].  Characters
\* outside the alphabet are skipped.  A '=' ends the input when it completes
\* the padding of a group: after three data characters of the group, or as
\* the second '=' after two.  Any other '=' is skipped.  Without such an
\* end, a last group of one character and a last group of two or three
\* characters are errors.
B64Scan(chars) ==
  LET quad_pos(rel, i) ==
        Cardinality({j \in 1..(i - 1) : rel[j] # B64_PAD}) % 4
      Ends(rel) ==
        {i \in 1..Len(rel) :
           /\ rel[i] = B64_PAD
           /\ \/ quad_pos(rel, i) = 3
              \/ quad_pos(rel, i) = 2 /\ i > 1 /\ rel[i - 1] = B64_PAD}
      byte(data, k) ==
        LET g == 4 * ((k - 1) \div 3)
            r == (k - 1) % 3
        IN  IF r = 0
              THEN B64Value(data[g + 1]) * 4 + (B64Value(data[g + 2]) \div 16)
            ELSE IF r = 1
              THEN (B64Value(data[g + 2]) % 16) * 16
                     + (B64Value(data[g + 3]) \div 4)
            ELSE (B64Value(data[g + 3]) % 4) * 64 + B64Value(data[g + 4])
      Result(ended, data) ==
        IF ~ended /\ Len(data) % 4 = 1
          THEN [ok |-> FALSE, bytes |-> <<>>,
                err |-> "Invalid base64-encoded string: number of data characters cannot be 1 more than a multiple of 4"]
        ELSE IF ~ended /\ Len(data) % 4 # 0
          THEN [ok |-> FALSE, bytes |-> <<>>, err |-> "Incorrect padding"]
        ELSE [ok |-> TRUE, err |-> "",
              bytes |-> [k \in 1..((Len(data) * 6) \div 8) |-> byte(data, k)]]
      Upto(rel, ends) ==
        Result(ends # {},
               SelectSeq(SubSeq(rel, 1, IF ends = {} THEN Len(rel)
                                        ELSE Min(ends) - 1),
                         LAMBDA c : c # B64_PAD))
      Scan(rel) == Upto(rel, Ends(rel))
  IN  Scan(SelectSeq(chars, LAMBDA c : c = B64_PAD \/ B64Value(c) < 64))

\* base64.b64decode(text.encode('ascii')): encode('ascii') raises
\* UnicodeEncodeError on a character above 127.
B64Decode(text) ==
  IF \E i \in 1..Len(text) : text[i] > 127
    THEN [ok |-> FALSE, bytes |-> <<>>,
          err |-> "'ascii' codec can't encode character"]
  ELSE B64Scan(text)

\* data[a:b] of Python, on a sequence that counts from 1
Slice(data, a, b) ==
  LET hi == IF b < Len(data) THEN b ELSE Len(data)
  IN  IF a >= hi THEN <<>> ELSE SubSeq(data, a + 1, hi)

\* any(c.isupper() ...), any(c.islower() ...), any(c.isdigit() ...) and the
\* special characters of _validate_password, for ASCII passwords
SpecialChars ==
  {33, 64, 35, 36, 37, 94, 38, 42, 40, 41, 95, 43, 45, 61, 91, 93, 123, 125,
   124, 59, 58, 44, 46, 60, 62, 63}

StrengthScore(password) ==
  LET has(S) == IF \E i \in 1..Len(password) : password[i] \in S THEN 1 ELSE 0
  IN  has(65..90) + has(97..122) + has(48..57) + has(SpecialChars)

\* A validation that, like FileValidator.validate_password_strength, also
\* turns down a password of fewer than 3 character classes.
_validate_password_scored(password) ==
  IF Len(password) < 8 THEN "Password must be at least 8 characters long"
  ELSE IF StrengthScore(password) < 3
    THEN "Password must contain at least 3 of: uppercase, lowercase, digits, special characters"
  ELSE ""

\* _validate_password: the error it raises, or "" when it returns.  A score
\* below 3 only logs a warning.
_validate_password(password) ==
  IF Len(password) < 8 THEN "Password must be at least 8 characters long"
  ELSE ""

\* _derive_key: stands in for PBKDF2-HMAC-SHA256, KEY_SIZE bytes out of the
\* password's UTF-8 bytes and the salt.
_derive_key(password, salt) ==
  LET pw == UTF8Encode(password)
      RECURSIVE Mix(_, _)
      Mix(i, j) == IF j = 0 THEN 0 ELSE pw[j] * (i + 2 * j + 1) + Mix(i, j - 1)
      s(i) == IF i <= Len(salt) THEN salt[i] ELSE 0
  IN  [i \in 1..KEY_SIZE |-> (Mix(i, Len(pw)) + 7 * s(i) + Len(salt) + i) % 256]

\* The block cipher: stands in for AES, a permutation of the 16-byte blocks
\* for every key.
BlockEncrypt(key, block) ==
  [i \in 1..AES_BLOCK |-> Xor((block[i] + key[i]) % 256, key[AES_BLOCK + i])]

BlockDecrypt(key, block) ==
  [i \in 1..AES_BLOCK |->
     (Xor(block[i], key[AES_BLOCK + i]) + 256 - key[i]) % 256]

XorBlock(a, b) == [i \in 1..AES_BLOCK |-> Xor(a[i], b[i])]

\* modes.CBC(iv): each block is xored with the previous ciphertext block (the
\* iv for the first) before it is encrypted.
RECURSIVE CBCEncrypt(_, _, _)
CBCEncrypt(key, prev, data) ==
  IF data = <<>> THEN <<>>
  ELSE LET c == BlockEncrypt(key, XorBlock(SubSeq(data, 1, AES_BLOCK), prev))
       IN  c \o CBCEncrypt(key, c, SubSeq(data, AES_BLOCK + 1, Len(data)))

RECURSIVE CBCDecrypt(_, _, _)
CBCDecrypt(key, prev, data) ==
  IF data = <<>> THEN <<>>
  ELSE LET c == SubSeq(data, 1, AES_BLOCK)
       IN  XorBlock(BlockDecrypt(key, c), prev)
             \o CBCDecrypt(key, c, SubSeq(data, AES_BLOCK + 1, Len(data)))

\* Padding with zero bytes up to the next block.
PadZeros(plaintext_bytes) ==
  LET padding_length == 16 - (Len(plaintext_bytes) % 16)
  IN  plaintext_bytes \o [i \in 1..padding_length |-> 0]

\* Padding that would add nothing to a whole number of blocks.
PadPartial(plaintext_bytes) ==
  LET padding_length == (16 - (Len(plaintext_bytes) % 16)) % 16
  IN  plaintext_bytes \o [i \in 1..padding_length |-> padding_length]

\* bytes([padding_length] * padding_length) appended to the plaintext
Pad(plaintext_bytes) ==
  LET padding_length == 16 - (Len(plaintext_bytes) % 16)
  IN  plaintext_bytes \o [i \in 1..padding_length |-> padding_length]

\* _encrypt_aes, with the salt and the iv secrets.token_bytes returned
_encrypt_aes(plaintext, password, salt, iv) ==
  IF ~CanEncodeUTF8(password) \/ ~CanEncodeUTF8(plaintext)
    THEN Raise("UnicodeEncodeError", <<"'utf-8' codec can't encode character">>)
  ELSE
    LET key == _derive_key(password, salt)
        padded_plaintext == Pad(UTF8Encode(plaintext))
        ciphertext == CBCEncrypt(key, iv, padded_plaintext)
        encrypted_data == salt \o iv \o ciphertext
    IN  ReturnText(B64Encode(encrypted_data))

\* The text of the error _decrypt_aes raises for the exception with text e.
DecryptionFailed(e) ==
  Raise("ValueError",
        <<"Decryption failed: ", e, ". Check password or data integrity.">>)

\* The loop that compares the last padding_length bytes with padding_length.
PaddingMatches(padded_plaintext, padding_length) ==
  \A i \in 0..(padding_length - 1) :
     padded_plaintext[Len(padded_plaintext) - i] = padding_length

_decrypt_aes(encrypted_data, password) ==
  LET Decode(plaintext) ==
        IF ~plaintext.ok
          THEN DecryptionFailed("'utf-8' codec can't decode byte")
        ELSE ReturnText(plaintext.text)
      Unpad(padded_plaintext, padding_length) ==
        IF padding_length > 16 \/ padding_length = 0
          THEN DecryptionFailed(
                 "Invalid padding - wrong password or corrupted data")
        ELSE IF Len(padded_plaintext) < padding_length
          THEN DecryptionFailed("Invalid padding length")
        ELSE IF ~PaddingMatches(padded_plaintext, padding_length)
          THEN DecryptionFailed("Invalid padding - wrong password")
        ELSE Decode(UTF8Decode(SubSeq(padded_plaintext, 1,
                                      Len(padded_plaintext) - padding_length)))
      Check(padded_plaintext) ==
        IF Len(padded_plaintext) = 0
          THEN DecryptionFailed("Invalid decryption result")
        ELSE Unpad(padded_plaintext, padded_plaintext[Len(padded_plaintext)])
      Decrypt(salt, iv, ciphertext) ==
        IF ~CanEncodeUTF8(password)
          THEN DecryptionFailed("'utf-8' codec can't encode character")
        ELSE IF Len(iv) # IV_SIZE
          THEN DecryptionFailed("Invalid IV size for CBC.")
        ELSE IF Len(ciphertext) % AES_BLOCK # 0
          THEN DecryptionFailed(
                 "The length of the provided data is not a multiple of the block length.")
        ELSE Check(CBCDecrypt(_derive_key(password, salt), iv, ciphertext))
      Split(encrypted_bytes) ==
        Decrypt(Slice(encrypted_bytes, 0, SALT_SIZE),
                Slice(encrypted_bytes, SALT_SIZE, SALT_SIZE + IV_SIZE),
                Slice(encrypted_bytes, SALT_SIZE + IV_SIZE,
                      Len(encrypted_bytes)))
      Decoded(decoded64) ==
        IF ~decoded64.ok THEN DecryptionFailed(decoded64.err)
        ELSE Split(decoded64.bytes)
  IN  Decoded(B64Decode(encrypted_data))

\* prepare_message(message, password, encode_base64).  The password <<>>
\* stands for both None and ''.
prepare_message(msg, password, encode_base64, salt, iv) ==
  LET Checked(invalid) ==
        IF invalid # "" THEN Raise("ValueError", <<invalid>>)
        ELSE _encrypt_aes(msg, password, salt, iv)
      Wrapped(processed) ==
        IF processed.kind = "error" THEN processed
        ELSE IF ~encode_base64 THEN processed
        ELSE IF ~CanEncodeUTF8(processed.text)
          THEN Raise("UnicodeEncodeError",
                     <<"'utf-8' codec can't encode character">>)
        ELSE ReturnText(B64Encode(UTF8Encode(processed.text)))
  IN  IF IsBlank(msg) THEN Raise("ValueError", <<"Message cannot be empty">>)
      ELSE IF password = <<>> THEN Wrapped(ReturnText(msg))
      ELSE IF IsBlank(password)
        THEN Raise("ValueError", <<"Password cannot be empty if provided">>)
      ELSE Wrapped(Checked(_validate_password(password)))

\* The error process_decoded_message raises for the exception with text e.
ProcessingError(e) ==
  Raise("ValueError", <<"Error processing decoded message: ">> \o e)

\* process_decoded_message(message, password, decode_base64)
process_decoded_message(msg, password, decode_base64) ==
  LET Caught(r) == IF r.kind = "error" THEN ProcessingError(r.text) ELSE r
      Decrypted(processed) ==
        IF processed.kind = "error" THEN processed
        ELSE IF password = <<>> THEN processed
        ELSE IF IsBlank(password)
          THEN Raise("ValueError", <<"Password cannot be empty if provided">>)
        ELSE _decrypt_aes(processed.text, password)
      Text(utf8) ==
        IF ~utf8.ok
          THEN Raise("UnicodeDecodeError", <<"'utf-8' codec can't decode byte">>)
        ELSE ReturnText(utf8.text)
      Unwrapped(decoded64) ==
        IF ~decoded64.ok THEN Raise("Error", <<decoded64.err>>)
        ELSE Text(UTF8Decode(decoded64.bytes))
  IN  IF IsBlank(msg) THEN Raise("ValueError", <<"Message cannot be empty">>)
      ELSE IF ~decode_base64 THEN Caught(Decrypted(ReturnText(msg)))
      ELSE IF ~CanEncodeUTF8(msg)
        THEN ProcessingError(<<"'utf-8' codec can't encode character">>)
      ELSE Caught(Decrypted(Unwrapped(B64Scan(UTF8Encode(msg)))))

(***************************************************************************)
(* The inputs explored for TextHandler.                                    *)
(***************************************************************************)
\* How many (salt, iv) pairs secrets.token_bytes may return.
NumDraws == 2

\* The d-th salt and the d-th iv
DrawSalt(d) == [i \in 1..SALT_SIZE |-> ((i - 1) * (6 * d - 5) + 3) % 256]
DrawIV(d) == [i \in 1..IV_SIZE |-> ((i - 1) * (8 * d - 5) + 5) % 256]

\* '', ' ', 'h', 'h' and the euro sign, 'fifteen chars !', 'sixteen chars !!'
\* and a lone surrogate (U+D800), which UTF-8 cannot encode
FifteenMsg == <<102, 105, 102, 116, 101, 101, 110, 32, 99, 104, 97, 114, 115, 32, 33>>
SixteenMsg == <<115, 105, 120, 116, 101, 101, 110, 32, 99, 104, 97, 114, 115, 32, 33, 33>>
PlainMessages ==
  {<<>>, BlankMsg, <<104>>, <<104, 8364>>, FifteenMsg, SixteenMsg, <<55296>>}

\* 'Str0ngP@ss', 'password', 'short', eight spaces, and two misspellings
StrongPassword == <<83, 116, 114, 48, 110, 103, 80, 64, 115, 115>>
WeakPassword == <<112, 97, 115, 115, 119, 111, 114, 100>>
ShortPassword == <<115, 104, 111, 114, 116>>
BlankPassword == [i \in 1..8 |-> 32]
LowerCasePassword == <<115, 116, 114, 48, 110, 103, 80, 64, 115, 115>>
SwappedPassword == <<83, 115, 114, 48, 110, 103, 80, 64, 115, 115>>

\* 'Ab1!xyz': all four character classes in seven characters
SevenPassword == <<65, 98, 49, 33, 120, 121, 122>>

ProtectPasswords ==
  {<<>>, ShortPassword, BlankPassword, StrongPassword, WeakPassword,
   SevenPassword}

TriedPasswords ==
  {<<>>, BlankPassword, StrongPassword, WeakPassword, LowerCasePassword,
   SwappedPassword}

\* What reaches process_decoded_message of a text that was prepared: the text,
\* its first 40 or 64 characters, or the text without its last 4 or its last
\* character.
Arrivals == {"intact", "first40", "first64", "chop4", "chop1"}

Arrival(text, how) ==
  IF how = "first40" THEN Slice(text, 0, 40)
  ELSE IF how = "first64" THEN Slice(text, 0, 64)
  ELSE IF how = "chop4" THEN Slice(text, 0, Len(text) - 4)
  ELSE IF how = "chop1" THEN Slice(text, 0, Len(text) - 1)
  ELSE text

(***************************************************************************)
(* The uses of TextHandler: one prepare_message, then one                  *)
(* process_decoded_message of what it returned.                            *)
(***************************************************************************)
\* The codec is not in use.
CodecIdle ==
  /\ image = [base |-> 1, shape |-> <<SmallSide, SmallSide, 3>>]
  /\ fill = 0
  /\ heap = (1 :> GridData(image.shape, 0))
  /\ message = <<>>
  /\ current = "lsb"
  /\ stego = NoResult
  /\ used = "none"
  /\ decoded = NoResult

InitText ==
  /\ CodecIdle
  /\ TextIdle
  /\ CapacityIdle
  /\ RegistryIdle
  /\ AnalysisIdle
  /\ CheckIdle
  /\ WorkersIdle
  /\ BatchIdle

\* Whether prepare_message reaches _encrypt_aes
Encrypts(msg, pw) ==
  /\ ~IsBlank(msg)
  /\ pw # <<>>
  /\ ~IsBlank(pw)
  /\ _validate_password(pw) = ""

\* TextHandler.prepare_message(msg, pw, b64)
Prepare(msg, pw, b64) ==
  /\ blob.kind = "none"
  /\ \E d \in 1..NumDraws :
       /\ token_salt' = IF Encrypts(msg, pw) THEN DrawSalt(d) ELSE <<>>
       /\ token_iv' = IF Encrypts(msg, pw) THEN DrawIV(d) ELSE <<>>
       /\ blob' = prepare_message(msg, pw, b64, DrawSalt(d), DrawIV(d))
  /\ plain' = msg
  /\ secret' = pw
  /\ wrap' = b64
  /\ warned' = (Encrypts(msg, pw) /\ StrengthScore(pw) < 3)
  /\ UNCHANGED <<given, tried, unwrap, recovered>>
  /\ UNCHANGED notText

\* TextHandler.process_decoded_message(text, pw, b64), of the text that
\* arrives of the one prepare_message returned
Process(how, pw, b64) ==
  /\ blob.kind = "text"
  /\ recovered.kind = "none"
  /\ given' = Arrival(blob.text, how)
  /\ tried' = pw
  /\ unwrap' = b64
  /\ recovered' = process_decoded_message(Arrival(blob.text, how), pw, b64)
  /\ UNCHANGED <<plain, secret, token_salt, token_iv, warned, wrap, blob>>
  /\ UNCHANGED notText

NextText ==
  \/ \E msg \in PlainMessages, pw \in ProtectPasswords, b64 \in BOOLEAN :
       Prepare(msg, pw, b64)
  \/ \E how \in Arrivals, pw \in TriedPasswords, b64 \in BOOLEAN :
       Process(how, pw, b64)

SpecText == InitText /\ [][NextText]_vars

(***************************************************************************)
(* Properties of TextHandler.                                              *)
(***************************************************************************)
\* process_decoded_message was given the text prepare_message returned, with
\* the same base64 setting.
GivenPrepared ==
  /\ blob.kind = "text"
  /\ recovered.kind # "none"
  /\ given = blob.text
  /\ unwrap = wrap

\* The error of a failed padding check, as the caller of
\* process_decoded_message sees it.
WrongPasswordOrCorrupted ==
  ProcessingError(
    DecryptionFailed("Invalid padding - wrong password or corrupted data").text)

\* C7: protection round-trip.  For every message and password that
\* prepare_message accepts, process_decoded_message of the text it returned,
\* with the same password, returns exactly the message.
C7_ProtectRoundTrip ==
  (GivenPrepared /\ tried = secret) => recovered = ReturnText(plain)

\* A message of a whole block was encrypted, wrapped in base64 or not, and
\* came back under the same password.
C7_Witness ==
  /\ GivenPrepared
  /\ plain = SixteenMsg
  /\ secret = StrongPassword
  /\ tried = secret
  /\ token_salt = DrawSalt(NumDraws)
  /\ recovered = ReturnText(plain)

\* C8: a wrong password always fails.  process_decoded_message of a text
\* that prepare_message encrypted, with a password (not empty) other than
\* the one it was encrypted with, raises an error; it returns no text.
C8_WrongPasswordFails ==
  ( /\ GivenPrepared
    /\ secret # <<>>
    /\ tried # <<>>
    /\ tried # secret )
  => recovered.kind = "error"

\* C9: every failure of _decrypt_aes reaches the caller of
\* process_decoded_message as the same error with the same text.
C9_FailuresAlike ==
  ( /\ blob.kind = "text"
    /\ secret # <<>>
    /\ ~unwrap
    /\ ~IsBlank(tried)
    /\ recovered.kind = "error" )
  => recovered = WrongPasswordOrCorrupted

\* C10: prepare_message with the empty string as password raises an error;
\* it returns no text.
C10_EmptyPasswordRaises ==
  (blob.kind # "none" /\ secret = <<>>) => blob.kind = "error"


(***************************************************************************)
(* The capacity methods of the five algorithm classes, called on one       *)
(* algorithm instance: can_fit_message and get_capacity of a grid, then    *)
(* get_capacity of a second grid.                                          *)
(***************************************************************************)
ReturnInt(n) == [kind |-> "int", value |-> n]

AlgorithmClasses == {"lsb", "dct", "dwt", "adaptive_lsb", "dct_block"}

\* AdaptiveLSBAlgorithm.get_capacity: np.sum(edge_mask), times the channels
\* of a three-dimensional image
Adaptive_edge_count(data, shape) ==
  IF Len(shape) = 3 THEN Len(_detect_edges(data, shape)) * shape[3]
  ELSE Len(_detect_edges(data, shape))

Adaptive_get_capacity(data, shape) ==
  IF Size(shape) = 0 THEN 0
  ELSE LET delimiter_bits == Len(ADAPTIVE_DELIMITER) * 8
           q == (Adaptive_edge_count(data, shape) - delimiter_bits) \div 8
       IN  IF q > 0 THEN q ELSE 0

\* can_fit_message(image, message) of an instance of the class
ClassCanFit(class, h, img, msg) ==
  IF class \in DefaultAlgorithms THEN AlgorithmCanFit(class, img.shape, msg)
  ELSE IF class = "adaptive_lsb"
    THEN Adaptive_can_fit_message(h[img.base], img.shape, msg)
  ELSE BlockDCT_can_fit_message(img.shape, msg)

\* get_capacity(image) of an instance of the class
ClassCapacity(class, h, img) ==
  IF class = "lsb" THEN LSB_get_capacity(img.shape)
  ELSE IF class = "dct" THEN SimpleDCT_get_capacity(img.shape)
  ELSE IF class = "dwt" THEN SimpleDWT_get_capacity(img.shape)
  ELSE IF class = "adaptive_lsb"
    THEN Adaptive_get_capacity(h[img.base], img.shape)
  ELSE BlockDCT_get_capacity(img.shape)

\* The grids measured, as (shape, carrier), and the messages asked about.
ScenarioShape == <<100, 100, 3>>

CapacityCarriers ==
  {<<<<SmallSide, SmallSide, 3>>, 2>>, <<<<8, 7, 3>>, 2>>, <<<<10, 10>>, 2>>,
   <<<<8, 48>>, 2>>, <<<<7, 100>>, 2>>, <<<<10, 127>>, 2>>,
   <<<<20, 20, 3>>, 2>>,
   <<<<BigSide, BigSide, 3>>, 0>>, <<<<BigSide, BigSide, 3>>, 2>>}

\* Every class is measured on every carrier; the 100x100x3 grid of the
\* documented scenario is measured by LSBAlgorithm.
Measured ==
  (AlgorithmClasses \X CapacityCarriers) \cup {<<"lsb", <<ScenarioShape, 0>>>>}

CapacityMessages == {<<104>>, <<8364>>, BlankMsg, LongMsg}

InitCapacity ==
  /\ \E m \in Measured :
       /\ algorithm = m[1]
       /\ image = [base |-> 1, shape |-> m[2][1]]
       /\ fill = m[2][2]
       /\ heap = (1 :> GridData(m[2][1], m[2][2]))
  /\ message \in CapacityMessages
  /\ current = "lsb"
  /\ stego = NoResult
  /\ used = "none"
  /\ decoded = NoResult
  /\ fit = NoResult
  /\ room = NoResult
  /\ earlier = NoResult
  /\ TextIdle
  /\ RegistryIdle
  /\ AnalysisIdle
  /\ CheckIdle
  /\ WorkersIdle
  /\ BatchIdle

\* algorithm.can_fit_message(image, message)
CanFitMessage ==
  /\ fit.kind = "none"
  /\ fit' = ReturnBool(ClassCanFit(algorithm, heap, image, message))
  /\ UNCHANGED <<codecVars, algorithm, room, earlier>>
  /\ UNCHANGED notCapacity

\* algorithm.get_capacity(image)
GetCapacity ==
  /\ room.kind = "none"
  /\ room' = ReturnInt(ClassCapacity(algorithm, heap, image))
  /\ UNCHANGED <<codecVars, algorithm, fit, earlier>>
  /\ UNCHANGED notCapacity

\* The caller turns to another grid, keeping what get_capacity said of the
\* first.
LoadImage(shape, k) ==
  /\ room.kind = "int"
  /\ earlier.kind = "none"
  /\ <<algorithm, <<shape, k>>>> \in Measured
  /\ earlier' = [kind |-> "measure", shape |-> image.shape, fill |-> fill,
                 capacity |-> room.value]
  /\ image' = [base |-> 1, shape |-> shape]
  /\ fill' = k
  /\ heap' = (1 :> GridData(shape, k))
  /\ fit' = NoResult
  /\ room' = NoResult
  /\ UNCHANGED <<message, current, stego, used, decoded, algorithm>>
  /\ UNCHANGED notCapacity

NextCapacity ==
  \/ CanFitMessage
  \/ GetCapacity
  \/ \E m \in Measured : LoadImage(m[2][1], m[2][2])

SpecCapacity == InitCapacity /\ [][NextCapacity]_vars

(***************************************************************************)
(* Properties of the capacity methods.                                     *)
(***************************************************************************)
\* The delimiter encode of the class appends.
ClassDelimiter(class) ==
  IF class = "lsb" THEN LSB_DELIMITER
  ELSE IF class \in {"dct", "dwt"} THEN STRIDE_DELIMITER
  ELSE IF class = "adaptive_lsb" THEN ADAPTIVE_DELIMITER
  ELSE DCT_DELIMITER

\* The number of samples (coefficients, for DCTAlgorithm) encode of the
\* class can write a bit to.
ClassSlots(class, data, shape) ==
  IF class = "lsb" THEN Size(shape)
  ELSE IF class = "dct" THEN RangeLen(DCT_START, Size(shape), DCT_STRIDE)
  ELSE IF class = "dwt" THEN RangeLen(DWT_START, Size(shape), DWT_STRIDE)
  ELSE IF class = "adaptive_lsb"
    THEN EdgePositionCount(_detect_edges(data, shape), shape)
  ELSE BlockDCT_available_bits(shape)

\* C11: fit and capacity agree.  For each algorithm, every grid and every
\* non-empty message, can_fit_message is true exactly when the bits of the
\* message and the delimiter are at most the slots the algorithm can write
\* in the grid, that is exactly when len(message) <= get_capacity(grid).
C11_FitMatchesCapacity ==
  (fit.kind = "bool" /\ room.kind = "int" /\ message # <<>>) =>
    /\ fit.value =
         (Len(BinaryMessage(message \o ClassDelimiter(algorithm)))
            <= ClassSlots(algorithm, heap[image.base], image.shape))
    /\ fit.value = (Len(message) <= room.value)


\* The sample count and the capacity of the grid measured before.
EarlierSamples == Size(earlier.shape)

TwoMeasures == earlier.kind = "measure" /\ room.kind = "int"

\* C12: capacity monotonicity.  For a fixed algorithm and two grids, the one
\* with no more samples in total has no more capacity.
C12_CapacityMonotone ==
  TwoMeasures =>
    /\ EarlierSamples <= Size(image.shape) => earlier.capacity <= room.value
    /\ Size(image.shape) <= EarlierSamples => room.value <= earlier.capacity

\* C12, as the code has it: the capacity grows with the sample count for
\* LSBAlgorithm and the fixed-stride classes, with the coefficients of the
\* whole 8x8 blocks for DCTAlgorithm, and with the edge count for
\* AdaptiveLSBAlgorithm.
C12_CapacityMonotoneInSlots ==
  TwoMeasures =>
    /\ ( /\ algorithm \in DefaultAlgorithms
         /\ EarlierSamples <= Size(image.shape) )
       => earlier.capacity <= room.value
    /\ ( /\ algorithm = "dct_block"
         /\ BlockDCT_available_bits(earlier.shape)
              <= BlockDCT_available_bits(image.shape) )
       => earlier.capacity <= room.value
    /\ ( /\ algorithm = "adaptive_lsb"
         /\ Adaptive_edge_count(GridData(earlier.shape, earlier.fill),
                                earlier.shape)
              <= Adaptive_edge_count(heap[image.base], image.shape) )
       => earlier.capacity <= room.value

\* DCTAlgorithm measured a grid of six blocks, then a larger one, and the
\* capacity grew.
C12_Witness ==
  /\ TwoMeasures
  /\ algorithm = "dct_block"
  /\ earlier.shape = <<8, 48>>
  /\ earlier.capacity = 1
  /\ image.shape = <<BigSide, BigSide, 3>>
  /\ room.value > earlier.capacity


\* C13: the capacity formula.  LSBAlgorithm.get_capacity is
\* max(0, floor((total_samples - 160) / 8)), never negative, and 3730 for a
\* 100x100x3 grid; the fixed-stride variants' is
\* max(0, floor((floor(total_samples / stride) - 72) / 8)) with stride 16
\* and 32.
C13_CapacityFormula ==
  room.kind = "int" =>
    LET total_samples == Size(image.shape)
    IN  /\ room.value >= 0
        /\ algorithm = "lsb" =>
             room.value = Max({0, (total_samples - 160) \div 8})
        /\ (algorithm = "lsb" /\ image.shape = <<100, 100, 3>>) =>
             room.value = 3730
        /\ algorithm = "dct" =>
             room.value = Max({0, ((total_samples \div 16) - 72) \div 8})
        /\ algorithm = "dwt" =>
             room.value = Max({0, ((total_samples \div 32) - 72) \div 8})

\* LSBAlgorithm measured the 100x100x3 grid of the documented scenario.
C13_Witness ==
  /\ algorithm = "lsb"
  /\ image.shape = ScenarioShape
  /\ room = ReturnInt(3730)


(***************************************************************************)
(* SteganographyEngine with its registry: register_algorithm,              *)
(* set_algorithm and the four methods that dispatch to the selected        *)
(* algorithm, called in any order on one engine.                           *)
(***************************************************************************)
MaxOverrides == 1

\* self._algorithms.keys(), name in self._algorithms, self._algorithms[name]
Keys(reg) == [i \in 1..Len(reg) |-> reg[i].name]
Has(reg, name) == \E i \in 1..Len(reg) : reg[i].name = name
Lookup(reg, name) == reg[CHOOSE i \in 1..Len(reg) : reg[i].name = name].class

\* self._algorithms[name] = algorithm: a present key keeps its place
Put(reg, name, class) ==
  IF Has(reg, name)
    THEN [i \in 1..Len(reg) |->
            IF reg[i].name = name THEN [name |-> name, class |-> class]
            ELSE reg[i]]
  ELSE Append(reg, [name |-> name, class |-> class])

\* self._algorithms.setdefault(name, algorithm)
PutIfAbsent(reg, name, class) ==
  IF Has(reg, name) THEN reg ELSE Append(reg, [name |-> name, class |-> class])

\* The entries that differ from those __init__ made.
Overrides(reg) ==
  Cardinality({i \in 1..Len(reg) :
                 i > Len(DefaultRegistry) \/ reg[i].class # reg[i].name})

\* A method that returned None, and the record of a call of the engine.
Returned == [kind |-> "returned"]
Reply(call, out) == [kind |-> "reply", call |-> call, out |-> out]

\* The names and the objects the engine is called with.
RequestedNames == {"lsb", "dct", "dwt", "custom", "missing"}
RegisteredNames == RequestedNames \ {"missing"}
Instances == DefaultAlgorithms \cup {"object"}

InitRegistry ==
  /\ image = [base |-> 1, shape |-> <<BigSide, BigSide, 3>>]
  /\ fill = 2
  /\ heap = (1 :> GridData(image.shape, fill))
  /\ message \in {<<104>>, LongMsg}
  /\ current = "lsb"
  /\ stego = NoResult
  /\ used = "none"
  /\ decoded = NoResult
  /\ RegistryIdle
  /\ TextIdle
  /\ CapacityIdle
  /\ AnalysisIdle
  /\ CheckIdle
  /\ WorkersIdle
  /\ BatchIdle

\* What a call of the engine leaves alone besides the registry and the
\* selection.
engineRest == <<image, fill, message, stego, used, decoded>>

\* register_algorithm's TypeError
NotAnAlgorithm ==
  Raise("TypeError", "Algorithm must inherit from SteganographyAlgorithm")

\* register_algorithm that keeps the entry a name already has
register_if_absent(name, class) ==
  /\ IF class \notin AlgorithmClasses
       THEN /\ registry' = registry
            /\ reply' = Reply(<<"register_algorithm", name, class>>,
                              NotAnAlgorithm)
     ELSE /\ Overrides(Put(registry, name, class)) <= MaxOverrides
          /\ registry' = PutIfAbsent(registry, name, class)
          /\ reply' = Reply(<<"register_algorithm", name, class>>, Returned)
  /\ heap' = (1 :> heap[1])
  /\ UNCHANGED <<current, engineRest>>
  /\ UNCHANGED notRegistry

\* register_algorithm(name, algorithm), algorithm an instance of the class
register_algorithm(name, class) ==
  /\ IF class \notin AlgorithmClasses
       THEN /\ registry' = registry
            /\ reply' = Reply(<<"register_algorithm", name, class>>,
                              NotAnAlgorithm)
     ELSE /\ Overrides(Put(registry, name, class)) <= MaxOverrides
          /\ registry' = Put(registry, name, class)
          /\ reply' = Reply(<<"register_algorithm", name, class>>, Returned)
  /\ heap' = (1 :> heap[1])
  /\ UNCHANGED <<current, engineRest>>
  /\ UNCHANGED notRegistry

\* The text of set_algorithm's ValueError: the name and the joined keys.
NotRegistered(name, reg) ==
  Raise("ValueError",
        <<"Algorithm '", name, "' not registered. Available: ", Keys(reg)>>)

\* set_algorithm that checks the name and keeps the selection
set_algorithm_checked_only(name) ==
  /\ current' = current
  /\ reply' = Reply(<<"set_algorithm", name>>,
                    IF ~Has(registry, name) THEN NotRegistered(name, registry)
                    ELSE Returned)
  /\ heap' = (1 :> heap[1])
  /\ UNCHANGED <<registry, engineRest>>
  /\ UNCHANGED notRegistry

\* set_algorithm that selects the name without looking it up
set_algorithm_unchecked(name) ==
  /\ current' = name
  /\ reply' = Reply(<<"set_algorithm", name>>, Returned)
  /\ heap' = (1 :> heap[1])
  /\ UNCHANGED <<registry, engineRest>>
  /\ UNCHANGED notRegistry

\* set_algorithm(name)
set_algorithm(name) ==
  /\ IF ~Has(registry, name)
       THEN /\ current' = current
            /\ reply' = Reply(<<"set_algorithm", name>>,
                              NotRegistered(name, registry))
     ELSE /\ current' = name
          /\ reply' = Reply(<<"set_algorithm", name>>, Returned)
  /\ heap' = (1 :> heap[1])
  /\ UNCHANGED <<registry, engineRest>>
  /\ UNCHANGED notRegistry

\* encode_message(image, message).  The grid an earlier call returned is
\* dropped; the one this call returns is buffer 2.
encode_message ==
  /\ LET r == Collect(AlgorithmEncode(Lookup(registry, current),
                                      (1 :> heap[1]), image, message))
     IN  /\ heap' = r.heap
         /\ reply' = Reply(<<"encode_message">>, r.out)
  /\ UNCHANGED <<registry, current, engineRest>>
  /\ UNCHANGED notRegistry

\* decode_message(image)
decode_message ==
  /\ reply' = Reply(<<"decode_message">>,
                    AlgorithmDecode(Lookup(registry, current), heap, image))
  /\ heap' = (1 :> heap[1])
  /\ UNCHANGED <<registry, current, engineRest>>
  /\ UNCHANGED notRegistry

\* can_fit_message(image, message)
can_fit_message ==
  /\ reply' = Reply(<<"can_fit_message">>,
                    ReturnBool(AlgorithmCanFit(Lookup(registry, current),
                                               image.shape, message)))
  /\ heap' = (1 :> heap[1])
  /\ UNCHANGED <<registry, current, engineRest>>
  /\ UNCHANGED notRegistry

\* get_capacity(image)
get_capacity ==
  /\ reply' = Reply(<<"get_capacity">>,
                    ReturnInt(ClassCapacity(Lookup(registry, current), heap,
                                            image)))
  /\ heap' = (1 :> heap[1])
  /\ UNCHANGED <<registry, current, engineRest>>
  /\ UNCHANGED notRegistry

NextRegistry ==
  \/ \E name \in RegisteredNames, class \in Instances :
       register_algorithm(name, class)
  \/ \E name \in RequestedNames : set_algorithm(name)
  \/ encode_message
  \/ decode_message
  \/ can_fit_message
  \/ get_capacity

SpecRegistry == InitRegistry /\ [][NextRegistry]_vars


(***************************************************************************)
(* Properties of the engine's registry.                                    *)
(***************************************************************************)
\* The step is a call of the method.
Called(method) == reply'.kind = "reply" /\ reply'.call[1] = method

\* C14: set_algorithm(name) with a name that is not registered raises an
\* error that lists the registered names and leaves the selection and the
\* registry as they were; with a registered name it makes that name the
\* current one.
C14_SetAlgorithm ==
  [][ Called("set_algorithm") =>
        LET name == reply'.call[2]
        IN  IF \E i \in 1..Len(registry) : registry[i].name = name
              THEN /\ current' = name
                   /\ reply'.out.kind = "returned"
            ELSE /\ reply'.out.kind = "error"
                 /\ reply'.out.type = "ValueError"
                 /\ \A i \in 1..Len(registry) :
                      \E j \in 1..Len(reply'.out.text[4]) :
                        reply'.out.text[4][j] = registry[i].name
                 /\ current' = current
                 /\ registry' = registry ]_vars

\* A name was registered beside the defaults, and set_algorithm of a name
\* that is not registered raised.
C14_Witness ==
  /\ Len(registry) > Len(DefaultRegistry)
  /\ reply.kind = "reply"
  /\ reply.call = <<"set_algorithm", "missing">>
  /\ reply.out.kind = "error"

\* C15: register_algorithm(name, a) puts a under the name, in place of any
\* entry the name had, the selected one included; it changes no other entry
\* and not the selection.  encode_message, decode_message, can_fit_message
\* and get_capacity go to the algorithm registered last under the current
\* name.
C15_RegisterAndDispatch ==
  [][ LET selected == Lookup(registry, current)
      IN  /\ (Called("register_algorithm") /\ reply'.out.kind = "returned") =>
               /\ Has(registry', reply'.call[2])
               /\ Lookup(registry', reply'.call[2]) = reply'.call[3]
               /\ \A i \in 1..Len(registry) :
                    registry[i].name # reply'.call[2] =>
                      /\ Has(registry', registry[i].name)
                      /\ Lookup(registry', registry[i].name) = registry[i].class
               /\ \A i \in 1..Len(registry') :
                    Has(registry, registry'[i].name)
                      \/ registry'[i].name = reply'.call[2]
               /\ current' = current
          /\ ~Called("register_algorithm") => registry' = registry
          /\ Called("encode_message") =>
               reply'.out = Collect(AlgorithmEncode(selected, (1 :> heap[1]),
                                                    image, message)).out
          /\ Called("decode_message") =>
               reply'.out = AlgorithmDecode(selected, heap, image)
          /\ Called("can_fit_message") =>
               reply'.out = ReturnBool(AlgorithmCanFit(selected, image.shape,
                                                       message))
          /\ Called("get_capacity") =>
               reply'.out = ReturnInt(ClassCapacity(selected, heap, image))
    ]_vars

\* The selected name "lsb" was registered anew with a SimpleDWTAlgorithm,
\* and decode_message ran.
C15_Witness ==
  /\ current = "lsb"
  /\ Lookup(registry, "lsb") = "dwt"
  /\ reply.kind = "reply"
  /\ reply.call = <<"decode_message">>
  /\ reply.out = SimpleDWT_decode(heap, image)
  /\ reply.out # LSB_decode(heap, image)


(***************************************************************************)
(* ImageSteganalysis.  The floating point numbers of the analysis are kept *)
(* in thousandths, rounded down; a number above 1000.0 is kept as 1000.0   *)
(* (every number the code compares a score with is at most 1.0), and the   *)
(* terms 1e-10 that guard a logarithm or a division are left out.          *)
(***************************************************************************)
Abs(x) == IF x < 0 THEN 0 - x ELSE x

Saturate(x) == IF x > 1000000 THEN 1000000 ELSE x

\* np.log2 of a positive integer in 16384ths: the position of the leading
\* bit, then 14 binary digits by repeated squaring of the mantissa.
FloorLog2(m) == CHOOSE e \in 0..16 : Pow2(e) <= m /\ m < Pow2(e + 1)

RECURSIVE Log2Fraction(_, _)
RECURSIVE Log2Digit(_, _)
Log2Fraction(y, k) ==
  IF k = 0 THEN 0 ELSE Log2Digit((y * y) \div 16384, k)

Log2Digit(square, k) ==
  IF square >= 32768
    THEN Pow2(k - 1) + Log2Fraction(square \div 2, k - 1)
  ELSE Log2Fraction(square, k - 1)

Log2(m) ==
  FloorLog2(m) * 16384 + Log2Fraction((m * 16384) \div Pow2(FloorLog2(m)), 14)

\* -np.sum(probabilities * np.log2(probabilities + 1e-10)) over the values
\* present among the LSBs
Entropy(zeros, ones) ==
  IF zeros = 0 \/ ones = 0 THEN 0
  ELSE ( ( Log2(zeros + ones)
           - ((zeros * Log2(zeros) + ones * Log2(ones)) \div (zeros + ones)) )
         * 1000 ) \div 16384

\* The chi-square statistic (one degree of freedom, in thousandths) at
\* which stats.chisquare gives the p-value k / 1000, for k = 1..50.
ChiSquareCritical ==
  <<10827, 9549, 8807, 8283, 7879, 7550, 7272, 7033, 6822, 6634,
    6465, 6310, 6169, 6038, 5916, 5802, 5696, 5596, 5501, 5411,
    5326, 5245, 5168, 5094, 5023, 4956, 4890, 4828, 4767, 4709,
    4652, 4598, 4545, 4494, 4445, 4397, 4350, 4305, 4260, 4217,
    4176, 4135, 4095, 4056, 4018, 3981, 3945, 3909, 3875, 3841>>

\* p_value.  With scipy it is that of the statistic (zeros - ones)^2 / n,
\* kept as 50 when it is 0.05 or more; without scipy it is 1 - balance.
PValue(zeros, ones, scipy) ==
  IF scipy
    THEN Cardinality({k \in 1..Len(ChiSquareCritical) :
                        (zeros - ones) * (zeros - ones)
                          <= (ChiSquareCritical[k] * (zeros + ones)) \div 1000})
  ELSE 1000 - ((Abs(zeros - ones) * 1000) \div (zeros + ones))

\* observed_freq[1] / (observed_freq[0] + 1e-10)
Ratio(zeros, ones) ==
  IF zeros = 0 THEN (IF ones = 0 THEN 0 ELSE Saturate(1000000 * 1000))
  ELSE Saturate((ones * 1000) \div zeros)

\* entropy_score + ratio_score + chi_score, then results['suspicious_score']
SuspicionTerms(zeros, ones, scipy) ==
  Abs(Entropy(zeros, ones) - 1000)
    + Abs(Ratio(zeros, ones) - 500) * 2
    + (IF PValue(zeros, ones, scipy) < 50
         THEN 1000 - PValue(zeros, ones, scipy) ELSE 0)

SuspiciousScore(zeros, ones, scipy) == SuspicionTerms(zeros, ones, scipy) \div 3

\* The first recommendation of analyze_lsb_distribution.
SuspicionLevel(score) ==
  IF score > 700 THEN "HIGH SUSPICION"
  ELSE IF score > 400 THEN "MEDIUM SUSPICION"
  ELSE "LOW SUSPICION"

\* array &= 1: the LSBs written over the array itself
BitwiseAnd1InPlace(h, ref) ==
  [heap |-> [h EXCEPT ![ref.base] =
               [p \in 1..Len(h[ref.base]) |-> LSB(h[ref.base][p])]],
   ref  |-> ref]

\* array & 1: a new array of the LSBs
BitwiseAnd1(h, ref) ==
  [heap |-> Alloc(h, [p \in 1..Len(h[ref.base]) |-> LSB(h[ref.base][p])]),
   ref  |-> [base |-> NewId(h), shape |-> ref.shape]]

CountOf(data, v) == Cardinality({p \in 1..Len(data) : data[p] = v})

\* analyze_lsb_distribution(image)
analyze_lsb_distribution(h, img, scipy) ==
  LET Results(zeros, ones) ==
        [lsb_entropy |-> Entropy(zeros, ones),
         zeros |-> zeros,
         ones |-> ones,
         ratio |-> Ratio(zeros, ones),
         suspicious_score |-> SuspiciousScore(zeros, ones, scipy),
         level |-> SuspicionLevel(SuspiciousScore(zeros, ones, scipy))]
      Counted(lsb_bits) ==
        [heap |-> lsb_bits.heap,
         out  |-> Results(CountOf(lsb_bits.heap[lsb_bits.ref.base], 0),
                          CountOf(lsb_bits.heap[lsb_bits.ref.base], 1))]
      Flattened(flat_image) ==
        Counted(BitwiseAnd1(flat_image.heap, flat_image.ref))
  IN  Flattened(NpFlatten(h, img))

\* channels and channel_names: the planes image[:, :, i] zip() pairs with a
\* name, or the img itself.
ChannelNames(shape) ==
  IF Len(shape) = 3 THEN SubSeq(<<"Red", "Green", "Blue">>, 1, Min({3, shape[3]}))
  ELSE <<"Grayscale">>

\* Sample i (row-major, from 1) of channel c (from 1).
ChannelSample(data, shape, c, i) ==
  IF Len(shape) = 3 THEN data[(i - 1) * shape[3] + c] ELSE data[i]

\* The function f, tabulated (TLC keeps [x \in S |-> e] unevaluated, and
\* evaluates e again at every application).
Tabulated(f) == f @@ <<>>

\* The sum of f over lo..hi.
RECURSIVE SumOver(_, _, _)
SumOver(f, lo, hi) ==
  IF lo > hi THEN 0
  ELSE IF lo = hi THEN f[lo]
  ELSE SumOver(f, lo, (lo + hi) \div 2) + SumOver(f, ((lo + hi) \div 2) + 1, hi)

\* np.histogram(channel.flatten(), bins=256, range=(0, 256))
Histogram(data, shape, c) ==
  LET pixels == 1..(shape[1] * shape[2])
      Counts(present) ==
        [v \in 0..255 |->
           IF v \in present
             THEN Cardinality({i \in pixels :
                                ChannelSample(data, shape, c, i) = v})
           ELSE 0]
  IN  Tabulated(Counts({ChannelSample(data, shape, c, i) : i \in pixels}))

\* pair_differences of a histogram, and the test of the two anomalies:
\* avg_pair_diff < 10 and max_pair_diff > avg_pair_diff * 5.
PairDifferences(hist) ==
  Tabulated([j \in 1..128 |-> Abs(hist[2 * j - 2] - hist[2 * j - 1])])

PairAnomalies(name, pairs) ==
  (IF SumOver(pairs, 1, 128) < 10 * 128
     THEN <<<<name, "suspicious pair similarity">>>> ELSE <<>>)
  \o (IF Max({pairs[j] : j \in 1..128}) * 128 > SumOver(pairs, 1, 128) * 5
        THEN <<<<name, "extreme pair differences">>>> ELSE <<>>)

\* np.sum(np.abs(np.diff(hist)))
Smoothness(hist) ==
  SumOver(Tabulated([v \in 1..255 |-> Abs(hist[v] - hist[v - 1])]), 1, 255)

RECURSIVE Flat(_)
Flat(seqs) == IF seqs = <<>> THEN <<>> ELSE Head(seqs) \o Flat(Tail(seqs))

\* analyze_histogram_patterns(image)
analyze_histogram_patterns(h, img) ==
  LET names == ChannelNames(img.shape)
      Channel(name, hist) ==
        [anomalies |-> PairAnomalies(name, PairDifferences(hist)),
         smoothness |-> Smoothness(hist)]
      Results(per) ==
        [histogram_anomalies |->
           Flat([c \in 1..Len(names) |-> per[c].anomalies]),
         smoothness_score |->
           SumOver([c \in 1..Len(names) |-> per[c].smoothness], 1, Len(names))
             \div (IF Len(img.shape) = 3 THEN img.shape[3] ELSE 1)]
  IN  [heap |-> h,
       out  |-> Results(Tabulated(
                  [c \in 1..Len(names) |->
                     Channel(names[c],
                             Histogram(h[img.base], img.shape, c))]))]

\* np.sum(np.abs(np.diff(lsb_plane, axis))) of a uint8 plane: the
\* difference 0 - 1 wraps to 255, so a fall counts 255 and a rise 1.
PlaneChanges(bits, shape, c, dy, dx) ==
  LET At(y, x) == ChannelSample(bits, shape, c, y * shape[2] + x + 1)
      pairs == {yx \in (0..(shape[1] - 1 - dy)) \X (0..(shape[2] - 1 - dx)) :
                  At(yx[1], yx[2]) # At(yx[1] + dy, yx[2] + dx)}
  IN  Cardinality({yx \in pairs : At(yx[1], yx[2]) = 0})
        + 255 * Cardinality({yx \in pairs : At(yx[1], yx[2]) = 1})

\* The artifacts of one LSB plane: pattern_density < 0.3 and
\* np.std(lsb_plane) < 0.4, the standard deviation of a plane of zeros and
\* ones being sqrt(zeros * ones) / total_pixels.
PlaneArtifacts(name, changes, ones, total_pixels) ==
  (IF changes * 10 < 3 * total_pixels
     THEN <<<<name, "low pattern density">>>> ELSE <<>>)
  \o (IF 25 * ones * (total_pixels - ones) < 4 * total_pixels * total_pixels
        THEN <<<<name, "lacks randomness">>>> ELSE <<>>)

\* visual_attack_analysis(image)
visual_attack_analysis(h, img) ==
  LET names == ChannelNames(img.shape)
      total_pixels == img.shape[1] * img.shape[2]
      Plane(bits, c) ==
        [changes |-> PlaneChanges(bits, img.shape, c, 0, 1)
                       + PlaneChanges(bits, img.shape, c, 1, 0),
         ones |-> Cardinality({i \in 1..total_pixels :
                                 ChannelSample(bits, img.shape, c, i) = 1})]
      Results(per) ==
        [lsb_plane_analysis |->
           [c \in 1..Len(names) |-> (per[c].changes * 1000) \div total_pixels],
         visual_artifacts |->
           Flat([c \in 1..Len(names) |->
                   PlaneArtifacts(names[c], per[c].changes, per[c].ones,
                                  total_pixels)])]
      Planes(lsb_plane) ==
        [heap |-> lsb_plane.heap,
         out  |-> Results(Tabulated(
                    [c \in 1..Len(names) |->
                       Plane(lsb_plane.heap[lsb_plane.ref.base], c)]))]
  IN  Planes(BitwiseAnd1(h, img))

\* The confidence level comprehensive_analysis gives a score.
confidence_level(overall_suspicion_score) ==
  IF overall_suspicion_score > 700 THEN "HIGH"
  ELSE IF overall_suspicion_score > 400 THEN "MEDIUM"
  ELSE "LOW"

\* comprehensive_analysis(image)
comprehensive_analysis(h, img, scipy) ==
  LET Overall(lsb_terms, histogram_score, visual_score) ==
        (lsb_terms + 3 * histogram_score + 3 * visual_score) \div 9
      Results(lsb_results, histogram_results, visual_results, overall) ==
        [overall_suspicion_score |-> overall,
         confidence_level |-> confidence_level(overall),
         detailed_results |-> <<lsb_results, histogram_results, visual_results>>]
      Combined(lsb, histogram, visual) ==
        [heap |-> visual.heap,
         out  |-> Results(lsb.out, histogram.out, visual.out,
                          Overall(SuspicionTerms(lsb.out.zeros, lsb.out.ones,
                                                 scipy),
                                  IF histogram.out.histogram_anomalies # <<>>
                                    THEN 1000 ELSE 0,
                                  IF visual.out.visual_artifacts # <<>>
                                    THEN 1000 ELSE 0))]
      AfterHistogram(lsb, histogram) ==
        Combined(lsb, histogram, visual_attack_analysis(histogram.heap, img))
      AfterLsb(lsb) ==
        AfterHistogram(lsb, analyze_histogram_patterns(lsb.heap, img))
  IN  AfterLsb(analyze_lsb_distribution(h, img, scipy))


(***************************************************************************)
(* The analysis of one image: the four methods of ImageSteganalysis are    *)
(* called in any order and any number of times on an image that is never   *)
(* replaced.                                                               *)
(***************************************************************************)
AnalysisMethods ==
  {"analyze_lsb_distribution", "analyze_histogram_patterns",
   "visual_attack_analysis", "comprehensive_analysis"}

\* The images analysed, as <<shape, carrier>>.
AnalysisCarriers ==
  ({<<5, 5, 3>>, <<6, 6>>} \X {0, 1, 2, 10})
    \cup {<<<<4, 6, 3>>, 2>>, <<<<4, 6, 3>>, 10>>, <<<<8, 7, 3>>, 2>>,
          <<<<40, 40>>, 11>>}

\* Overall scores, in thousandths, at and around the two thresholds.
ScoreSamples == {0, 399, 400, 401, 699, 700, 701, 1000}

InitAnalysis ==
  /\ \E c \in AnalysisCarriers :
       /\ heap = (1 :> GridData(c[1], c[2]))
       /\ image = [base |-> 1, shape |-> c[1]]
       /\ fill = c[2]
  /\ message = <<>>
  /\ current = "lsb"
  /\ stego = NoResult
  /\ used = "none"
  /\ decoded = NoResult
  /\ HAS_SCIPY \in BOOLEAN
  /\ scores = <<>>
  /\ latest = NoResult
  /\ TextIdle
  /\ CapacityIdle
  /\ RegistryIdle
  /\ CheckIdle
  /\ WorkersIdle
  /\ BatchIdle

\* What a method returns, with the memory it leaves.
Analysis(method, h, img, scipy) ==
  IF method = "analyze_lsb_distribution"
    THEN analyze_lsb_distribution(h, img, scipy)
  ELSE IF method = "analyze_histogram_patterns"
    THEN analyze_histogram_patterns(h, img)
  ELSE IF method = "visual_attack_analysis"
    THEN visual_attack_analysis(h, img)
  ELSE comprehensive_analysis(h, img, scipy)

\* A call of one of the methods.  The arrays the call made are garbage
\* once it has returned.
Analyse(method) ==
  LET Returned2(r) ==
        /\ heap' = (1 :> r.heap[1])
        /\ latest' = [kind |-> "analysis", method |-> method,
                      again |-> method \in DOMAIN scores, out |-> r.out]
        /\ scores' = IF method \in DOMAIN scores THEN scores
                     ELSE (method :> r.out) @@ scores
  IN  /\ Returned2(Analysis(method, heap, image, HAS_SCIPY))
      /\ UNCHANGED <<image, fill, message, current, stego, used, decoded>>
      /\ UNCHANGED HAS_SCIPY
      /\ UNCHANGED notAnalysis

\* The last step of comprehensive_analysis on its own: the level given to
\* an overall score.  It reads and writes no state of the analyser, so it
\* is taken here only before the first call of a method.
ConfidenceLevel(score) ==
  /\ scores = <<>>
  /\ latest' = [kind |-> "level", method |-> "confidence_level",
                out |-> [overall_suspicion_score |-> score,
                         confidence_level |-> confidence_level(score)]]
  /\ UNCHANGED <<codecVars, HAS_SCIPY, scores>>
  /\ UNCHANGED notAnalysis

NextAnalysis ==
  \/ \E method \in AnalysisMethods : Analyse(method)
  \/ \E score \in ScoreSamples : ConfidenceLevel(score)

SpecAnalysis == InitAnalysis /\ [][NextAnalysis]_vars


(***************************************************************************)
(* Properties of the analysis                                              *)
(***************************************************************************)
UnitInterval == 0..1000

\* C16: the suspicious_score returned by analyze_lsb_distribution and the
\* overall_suspicion_score returned by comprehensive_analysis lie in [0, 1]
\* for every grid.
C16_ScoreRange ==
  latest.kind = "analysis" =>
    /\ latest.method = "analyze_lsb_distribution"
         => latest.out.suspicious_score \in UnitInterval
    /\ latest.method = "comprehensive_analysis"
         => /\ latest.out.overall_suspicion_score \in UnitInterval
            /\ latest.out.detailed_results[1].suspicious_score \in UnitInterval

HasLevel ==
  \/ latest.kind = "level"
  \/ latest.kind = "analysis" /\ latest.method = "comprehensive_analysis"

C18_AnalysisPure ==
  /\ heap[image.base] = GridData(image.shape, fill)
  /\ DOMAIN heap = {image.base}
  /\ latest.kind = "analysis" => latest.out = scores[latest.method]

\* A method called again after all four have been, on a grid whose
\* samples are not all 0 or 1.
C18_Witness ==
  /\ latest.kind = "analysis"
  /\ latest.again
  /\ latest.method = "analyze_histogram_patterns"
  /\ DOMAIN scores = AnalysisMethods
  /\ fill = 2
  /\ Len(image.shape) = 3


(***************************************************************************)
(* A prepared text through the image: prepare_message, then the engine's   *)
(* encode_message of the text into an image, decode_message of the grid    *)
(* that returned, and process_decoded_message of the text that returned.   *)
(***************************************************************************)
\* The images the text is embedded in, as <<shape, carrier>>: of 867 and
\* of 3 * BigSide * BigSide samples.
ChannelCarriers ==
  {<<<<17, 17, 3>>, 2>>, <<<<BigSide, BigSide, 3>>, 0>>,
   <<<<BigSide, BigSide, 3>>, 2>>}

\* engine.encode_message(image, text) of the text prepare_message returned,
\* with the engine's first algorithm
EmbedPrepared(shape, k) ==
  /\ blob.kind = "text"
  /\ stego.kind = "none"
  /\ image' = [base |-> 1, shape |-> shape]
  /\ fill' = k
  /\ message' = blob.text
  /\ LET Encoded(r) ==
           /\ heap' = r.heap
           /\ stego' = r.out
     IN  Encoded(Collect(AlgorithmEncode(current, (1 :> GridData(shape, k)),
                                         [base |-> 1, shape |-> shape],
                                         blob.text)))
  /\ used' = current
  /\ UNCHANGED <<current, decoded>>
  /\ UNCHANGED notCodec

\* engine.decode_message(grid) of the grid encode_message returned
ExtractEmbedded ==
  /\ stego.kind = "grid"
  /\ decoded.kind = "none"
  /\ decoded' = AlgorithmDecode(current, heap, stego.ref)
  /\ UNCHANGED <<heap, image, fill, message, current, stego, used>>
  /\ UNCHANGED notCodec

\* TextHandler.process_decoded_message(text, pw, b64) of the text
\* decode_message returned
ProcessExtracted(pw, b64) ==
  /\ decoded.kind = "text"
  /\ recovered.kind = "none"
  /\ given' = decoded.text
  /\ tried' = pw
  /\ unwrap' = b64
  /\ recovered' = process_decoded_message(decoded.text, pw, b64)
  /\ UNCHANGED <<plain, secret, token_salt, token_iv, warned, wrap, blob>>
  /\ UNCHANGED notText

NextChannel ==
  \/ \E msg \in PlainMessages, pw \in ProtectPasswords, b64 \in BOOLEAN :
       Prepare(msg, pw, b64)
  \/ \E c \in ChannelCarriers : EmbedPrepared(c[1], c[2])
  \/ ExtractEmbedded
  \/ \E pw \in TriedPasswords, b64 \in BOOLEAN : ProcessExtracted(pw, b64)

SpecChannel == InitText /\ [][NextChannel]_vars

(***************************************************************************)
(* Properties of the channel                                               *)
(***************************************************************************)
Delimiters ==
  {LSB_DELIMITER, STRIDE_DELIMITER, ADAPTIVE_DELIMITER, DCT_DELIMITER}

\* A-Z, a-z, 0-9, '+', '/' and the padding '='
IsBase64Text(text) ==
  \A i \in 1..Len(text) : B64Value(text[i]) < 64 \/ text[i] = 61

\* C19: for every message and accepted password, the text prepare_message
\* returns consists of base64 characters only (no NUL, no newline, no
\* delimiter of any algorithm); on a grid with enough capacity, LSB encode
\* of that text returns a grid, LSB decode of the grid returns the text, and
\* process_decoded_message of it with the same password returns exactly the
\* message.
C19_ProtectedThroughChannel ==
  (blob.kind = "text" /\ secret # <<>>) =>
    /\ IsBase64Text(blob.text)
    /\ \A i \in 1..Len(blob.text) : blob.text[i] \notin {0, 10}
    /\ \A delimiter \in Delimiters : ~Contains(blob.text, delimiter)
    /\ (stego.kind # "none" /\ LSB_can_fit_message(image.shape, blob.text))
         => stego.kind = "grid"
    /\ decoded.kind # "none" => decoded = ReturnText(blob.text)
    /\ (recovered.kind # "none" /\ tried = secret /\ unwrap = wrap)
         => recovered = ReturnText(plain)

\* A protected text that exactly fills the 867 samples, embedded, extracted
\* and processed with its password.
C19_Witness ==
  /\ blob.kind = "text"
  /\ secret = StrongPassword
  /\ Len(blob.text) = 88
  /\ image.shape = <<17, 17, 3>>
  /\ stego.kind = "grid"
  /\ decoded.kind = "text"
  /\ tried = secret
  /\ unwrap = wrap
  /\ recovered = ReturnText(plain)


(***************************************************************************)
(* validate_message, of TextHandler and of FileValidator.                  *)
(***************************************************************************)
\* Python's None, and the truth value of max_length in `if max_length and`.
None == NoResult

Truthy(max_length) == max_length.kind = "int" /\ max_length.value # 0

Invalid(text) == [valid |-> FALSE, error |-> [text |-> text]]

\* f"Message too long. Maximum: {max_length} characters"
TooLong(max_length) ==
  [valid |-> FALSE,
   error |-> [text |-> "Message too long. Maximum: {} characters",
              max_length |-> max_length.value]]

Valid == [valid |-> TRUE, error |-> None]

\* TextHandler.validate_message(message, max_length)
TextHandler_validate_message(msg, max_length) ==
  IF IsBlank(msg) THEN Invalid("Message cannot be empty")
  ELSE IF ~CanEncodeUTF8(msg)
    THEN Invalid("Message contains invalid UTF-8 characters")
  ELSE IF \E i \in 1..Len(msg) : msg[i] = 0
    THEN Invalid("Message cannot contain null bytes")
  ELSE IF Truthy(max_length) /\ Len(msg) > max_length.value
    THEN TooLong(max_length)
  ELSE Valid

\* FileValidator.validate_message(message, max_length)
FileValidator_validate_message(msg, max_length) ==
  IF IsBlank(msg) THEN Invalid("Message cannot be empty")
  ELSE IF Truthy(max_length) /\ Len(msg) > max_length.value
    THEN TooLong(max_length)
  ELSE IF ~CanEncodeUTF8(msg) THEN Invalid("Message contains invalid characters")
  ELSE IF \E i \in 1..Len(msg) : msg[i] = 0
    THEN Invalid("Message cannot contain null bytes")
  ELSE Valid

\* The longest max_length given.
MaxLimit == 3

\* The messages validated: none, blank, 'h', 'hi', 'hij', 'hijk', texts with
\* a NUL, a lone surrogate, a bell character, and the euro sign.
Candidates ==
  {<<>>, BlankMsg, <<104>>, <<104, 105>>, <<104, 105, 106>>,
   <<104, 105, 106, 107>>, <<0>>, <<104, 0>>, <<104, 0, 105, 106>>,
   <<55296>>, <<104, 7>>, <<8364>>}

Limits == {None} \cup {ReturnInt(n) : n \in 0..MaxLimit}

Validators == {"TextHandler", "FileValidator"}

InitCheck ==
  /\ CodecIdle
  /\ TextIdle
  /\ CapacityIdle
  /\ RegistryIdle
  /\ AnalysisIdle
  /\ candidate \in Candidates
  /\ limit \in Limits
  /\ verdict = NoResult
  /\ WorkersIdle
  /\ BatchIdle

\* validator.validate_message(candidate, limit)
ValidateMessage(validator) ==
  /\ verdict' =
       [kind |-> "verdict", validator |-> validator,
        out |-> IF validator = "TextHandler"
                  THEN TextHandler_validate_message(candidate, limit)
                ELSE FileValidator_validate_message(candidate, limit)]
  /\ UNCHANGED <<candidate, limit>>
  /\ UNCHANGED notCheck

NextCheck == \E validator \in Validators : ValidateMessage(validator)

SpecCheck == InitCheck /\ [][NextCheck]_vars

(***************************************************************************)
(* Properties of validate_message                                          *)
(***************************************************************************)
\* C20: both validators return (False, error) for every message that is
\* empty, that holds a NUL, or that is longer than a max_length that was
\* supplied; a rejected message is never reported valid.
C20_MessageValidation ==
  ( /\ verdict.kind = "verdict"
    /\ \/ candidate = <<>>
       \/ \E i \in 1..Len(candidate) : candidate[i] = 0
       \/ limit # None /\ Len(candidate) > limit.value )
  => (~verdict.out.valid /\ verdict.out.error # None)


(***************************************************************************)
(* Properties of the password check and of the encrypted blob              *)
(***************************************************************************)
\* prepare_message was given a message and a password that are not blank.
PreparedWithPassword ==
  /\ blob.kind # "none"
  /\ ~IsBlank(plain)
  /\ secret # <<>>
  /\ ~IsBlank(secret)

TooShort == Raise("ValueError", <<"Password must be at least 8 characters long">>)

\* C21: prepare_message rejects every non-blank password shorter than 8
\* characters with an error and encrypts nothing; for a password of 8 or
\* more characters the character-class score never makes it fail: a score
\* below 3 only logs the warning, and the message is encrypted.
C21_StrengthAdvisory ==
  PreparedWithPassword =>
    IF Len(secret) < 8
      THEN /\ blob = TooShort
           /\ token_salt = <<>>
           /\ token_iv = <<>>
    ELSE /\ warned <=> (StrengthScore(secret) < 3)
         /\ blob.kind = "error" => blob.type = "UnicodeEncodeError"
         /\ CanEncodeUTF8(plain) =>
              /\ blob.kind = "text"
              /\ Len(token_salt) = SALT_SIZE
              /\ Len(token_iv) = IV_SIZE

\* A password of one character class was warned about and used.
C21_Witness ==
  /\ PreparedWithPassword
  /\ secret = WeakPassword
  /\ StrengthScore(secret) = 1
  /\ warned
  /\ blob.kind = "text"


\* The text _encrypt_aes returned, or _decrypt_aes was given: the text
\* itself, or what the outer base64 layer holds.
Unwrapped(text, b64) ==
  IF b64 THEN UTF8Decode(B64Scan(UTF8Encode(text)).bytes).text ELSE text

\* The three parts of the bytes of a blob, and the bytes its ciphertext
\* decrypts to under a password.
SaltOf(bytes) == Slice(bytes, 0, 32)

IVOf(bytes) == Slice(bytes, 32, 48)

CiphertextOf(bytes) == Slice(bytes, 48, Len(bytes))

PaddedPlaintext(bytes, password) ==
  CBCDecrypt(_derive_key(password, SaltOf(bytes)), IVOf(bytes),
             CiphertextOf(bytes))

\* The last byte p is in 1..16 and the last p bytes all equal p.
ValidPadding(padded) ==
  /\ Len(padded) > 0
  /\ padded[Len(padded)] \in 1..16
  /\ Len(padded) >= padded[Len(padded)]
  /\ \A i \in 0..(padded[Len(padded)] - 1) :
       padded[Len(padded) - i] = padded[Len(padded)]

\* 16 - (n mod 16) bytes of that value
ExpectedPadding(n) == [i \in 1..(16 - (n % 16)) |-> 16 - (n % 16)]

BlobLayout(bytes, n) ==
  /\ Len(CiphertextOf(bytes)) % 16 = 0
  /\ Len(CiphertextOf(bytes)) >= 16
  /\ Len(CiphertextOf(bytes)) > n
  /\ Len(CiphertextOf(bytes)) = n + Len(ExpectedPadding(n))
  /\ Len(bytes) = 32 + 16 + Len(CiphertextOf(bytes))
  /\ SaltOf(bytes) = token_salt
  /\ Len(token_salt) = 32
  /\ IVOf(bytes) = token_iv
  /\ Len(token_iv) = 16
  /\ PaddedPlaintext(bytes, secret) = UTF8Encode(plain) \o ExpectedPadding(n)

\* C22: for a message of n UTF-8 bytes the padding is 16 - (n mod 16) bytes
\* of that value, so the ciphertext is a multiple of 16 bytes, at least 16
\* and more than n; the base64-decoded blob is 32 salt bytes, 16 IV bytes,
\* then the ciphertext; and a decrypted plaintext is accepted only if its
\* last byte p is in 1..16 and its last p bytes all equal p.
C22_BlobLayout ==
  /\ (blob.kind = "text" /\ secret # <<>>) =>
       /\ B64Decode(Unwrapped(blob.text, wrap)).ok
       /\ BlobLayout(B64Decode(Unwrapped(blob.text, wrap)).bytes,
                     Len(UTF8Encode(plain)))
  /\ (recovered.kind = "text" /\ tried # <<>>) =>
       ValidPadding(PaddedPlaintext(B64Decode(Unwrapped(given, unwrap)).bytes,
                                    tried))

\* A message of exactly one block, padded with a whole block of 16s, then
\* decrypted and accepted.
C22_Witness ==
  /\ blob.kind = "text"
  /\ secret = StrongPassword
  /\ Len(UTF8Encode(plain)) = 16
  /\ Len(CiphertextOf(B64Decode(Unwrapped(blob.text, wrap)).bytes)) = 32
  /\ tried = secret
  /\ given = blob.text
  /\ recovered = ReturnText(plain)


(***************************************************************************)
(* Properties of the errors and of the embedding of LSB encode             *)
(***************************************************************************)
\* C23: every capacity error an encode raises carries the capacity the
\* grid has for the algorithm that raised it.
C23_CapacityErrorReportsCapacity ==
  (stego.kind = "error" /\ IsCapacityError(stego)) =>
    /\ "capacity" \in DOMAIN stego
    /\ stego.capacity = ClassCapacity(used, heap, image)

\* C24: LSB encode of a fitting message returns a grid of the input's shape
\* in which each of the first N samples (N the number of bits of the message
\* and the delimiter) keeps every bit of the input sample except bit 0, which
\* is the message bit, and every later sample equals the input sample.
C24_EncodeFrame ==
  (used = "lsb" /\ stego.kind = "grid") =>
    LET bits == BinaryMessage(message \o LSB_DELIMITER)
        before == heap[image.base]
        after == heap[stego.ref.base]
    IN  /\ stego.ref.shape = image.shape
        /\ Len(after) = Len(before)
        /\ \A i \in 1..Len(before) :
             after[i] = IF i <= Len(bits)
                          THEN (before[i] - (before[i] % 2)) + bits[i]
                          ELSE before[i]


\* The bit stream the claim describes: the UTF-8 bytes of the text, 8 bits a
\* byte, most significant bit first.
UTF8Bits(text) == BinaryMessage(UTF8Encode(text))

\* C25: the bit stream LSB encode writes for a message is the UTF-8 bytes of
\* the message and the delimiter, 8 bits a byte; its length is 8 times the
\* number of those bytes, and it is the bit count can_fit_message compares
\* with the number of samples, non-ASCII messages included.
C25_BitStreamIsUTF8 ==
  (used = "lsb" /\ ~IsBlank(message)) =>
    LET full_message == message \o LSB_DELIMITER
        binary_message == BinaryMessage(full_message)
        \* can_fit_message's message_bits
        message_bits == Len(full_message) * 8
    IN  /\ binary_message = UTF8Bits(full_message)
        /\ Len(binary_message) = 8 * Len(UTF8Encode(full_message))
        /\ Len(binary_message) = message_bits


\* The edge pixels decode finds in the grid adaptive encode returned, and
\* those encode found in the caller's grid.
EdgesOfOutput == _detect_edges(heap[stego.ref.base], stego.ref.shape)
EdgesOfInput == _detect_edges(heap[image.base], image.shape)

\* C26: for a grid and a message AdaptiveLSBAlgorithm.can_fit_message accepts,
\* the list of edge positions decode recomputes from encode's output is the
\* list encode built, and decode of the output returns the message.
C26_AdaptiveRoundTrip ==
  (used = "adaptive_lsb" /\ stego.kind = "grid") =>
    /\ EdgesOfOutput = EdgesOfInput
    /\ decoded.kind # "none" => decoded = ReturnText(message)


(***************************************************************************)
(* MainWindow.encode_message and decode_message: each starts a thread that *)
(* runs encode_worker or decode_worker on self.engine.  A step of a worker *)
(* is one call of the engine; the threads are scheduled freely between     *)
(* the calls and take no lock.                                             *)
(***************************************************************************)
Workers == {"encode_worker", "decode_worker"}

\* The images and the messages the window holds.
WorkerShapes == {<<SmallSide, SmallSide, 3>>, <<8, 7, 3>>}
WorkerMessages == {<<104>>, <<104, 104>>}

\* A worker that has just been started, with the name its combobox holds.
Started(name) ==
  [pc |-> "start", wanted |-> name, ran |-> "none", shown |-> NoResult]

InitWorkers ==
  /\ \E shape \in WorkerShapes :
       /\ image = [base |-> 1, shape |-> shape]
       /\ heap = (1 :> GridData(shape, 2))
  /\ fill = 2
  /\ message \in WorkerMessages
  /\ current = "lsb"
  /\ stego = NoResult
  /\ used = "none"
  /\ decoded = NoResult
  /\ workers \in [Workers -> {Started(name) : name \in DefaultAlgorithms}]
  /\ TextIdle
  /\ CapacityIdle
  /\ RegistryIdle
  /\ AnalysisIdle
  /\ CheckIdle
  /\ BatchIdle

\* messagebox.showerror("Error", text), scheduled on the main loop
ShowError(text) == [kind |-> "error", type |-> "messagebox", text |-> text]

\* self.engine.set_algorithm(self.algorithm_var.get()), the first statement
\* of both workers
WorkerSetAlgorithm(w) ==
  /\ workers[w].pc = "start"
  /\ current' = workers[w].wanted
  /\ workers' = [workers EXCEPT ![w].pc = "selected"]
  /\ UNCHANGED <<heap, image, fill, message, stego, used, decoded>>
  /\ UNCHANGED notWorkers

\* encode_worker: if not self.engine.can_fit_message(image, message): show
\* the error and return
EncodeWorkerCanFit ==
  /\ workers["encode_worker"].pc = "selected"
  /\ workers' =
       [workers EXCEPT !["encode_worker"] =
          IF AlgorithmCanFit(current, image.shape, message)
            THEN [@ EXCEPT !.pc = "checked", !.ran = current]
          ELSE [@ EXCEPT !.pc = "done", !.ran = current,
                         !.shown = ShowError("Message is too long for this image.")]]
  /\ UNCHANGED codecVars
  /\ UNCHANGED notWorkers

\* encode_worker: prepare_message(message, None), then
\* self.engine.encode_message(image, processed_message); an exception is
\* shown as an error, a grid goes to save_encoded_image.
EncodeWorkerEncode ==
  /\ workers["encode_worker"].pc = "checked"
  /\ LET processed == prepare_message(message, <<>>, FALSE, <<>>, <<>>)
         r == IF processed.kind = "error"
                THEN [heap |-> (1 :> heap[1]), out |-> processed]
              ELSE Collect(AlgorithmEncode(current, (1 :> heap[1]), image,
                                           processed.text))
     IN  /\ heap' = r.heap
         /\ stego' = r.out
         /\ used' = current
         /\ workers' =
              [workers EXCEPT !["encode_worker"] =
                 [@ EXCEPT !.pc = "done", !.ran = current,
                           !.shown = IF r.out.kind = "error"
                                       THEN ShowError("Encoding failed")
                                     ELSE r.out]]
  /\ UNCHANGED <<image, fill, message, current, decoded>>
  /\ UNCHANGED notWorkers

\* decode_worker: self.engine.decode_message(self.decode_image), then
\* process_decoded_message(decoded_message, None); the text is displayed, an
\* exception is shown as an error.
DecodeWorkerDecode ==
  /\ workers["decode_worker"].pc = "selected"
  /\ LET decoded_message == AlgorithmDecode(current, heap, image)
         final_message ==
           IF decoded_message.kind = "error" THEN decoded_message
           ELSE process_decoded_message(decoded_message.text, <<>>, FALSE)
     IN  /\ decoded' = decoded_message
         /\ workers' =
              [workers EXCEPT !["decode_worker"] =
                 [@ EXCEPT !.pc = "done", !.ran = current,
                           !.shown = IF final_message.kind = "error"
                                       THEN ShowError("Decoding failed")
                                     ELSE final_message]]
  /\ UNCHANGED <<heap, image, fill, message, current, stego, used>>
  /\ UNCHANGED notWorkers

NextWorkers ==
  \/ \E w \in Workers : WorkerSetAlgorithm(w)
  \/ EncodeWorkerCanFit
  \/ EncodeWorkerEncode
  \/ DecodeWorkerDecode

SpecWorkers == InitWorkers /\ [][NextWorkers]_vars

\* A worker between its set_algorithm and the last call of the engine that
\* uses the selection.
Selecting(w) == workers[w].pc \in {"selected", "checked"}

\* C27: in every interleaving of the encode worker and the decode worker on
\* the shared engine, no worker's set_algorithm runs between another
\* worker's set_algorithm and that worker's can_fit_message, encode_message
\* or decode_message.
C27_SelectUseAtomic ==
  [][\A w \in Workers, v \in Workers :
       (w # v /\ workers[w].pc = "start" /\ workers'[w].pc = "selected")
         => ~Selecting(v)]_vars


(***************************************************************************)
(* SimpleSteganography of main.py, used without a password.                *)
(***************************************************************************)
\* '1111111111111110', the end marker
END_MARKER == <<1, 1, 1, 1, 1, 1, 1, 1, 1, 1, 1, 1, 1, 1, 1, 0>>

\* "ENCRYPTED:"
ENCRYPTED_PREFIX == <<69, 78, 67, 82, 89, 80, 84, 69, 68, 58>>

\* encode(image_array, message): the bits of the characters and the end
\* marker go to the low bits of the first samples of a copy.  The shape must
\* unpack into height, width and channels.
Simple_encode(h, img, msg) ==
  LET binary_message == BinaryMessage(msg) \o END_MARKER
      max_capacity == Size(img.shape)
  IN  IF Len(img.shape) # 3
        THEN [heap |-> h,
              out |-> Raise("ValueError", "not enough values to unpack")]
      ELSE IF Len(binary_message) > max_capacity
        THEN [heap |-> h,
              out |-> [kind |-> "error", type |-> "ValueError",
                       text |-> "Message too long! Max capacity",
                       capacity |-> max_capacity \div 8]]
      ELSE LET stego_image == NpCopy(h, img)
               sb == stego_image.ref.base
           IN  [heap |-> [stego_image.heap EXCEPT
                            ![sb] = LSB_embed(stego_image.heap[sb],
                                              binary_message)],
                out |-> ReturnGrid(stego_image.ref)]

\* The number of low bits decode has read when binary_message first ends
\* with the end marker (the test follows every bit read), or 0 when it never
\* does.
MarkerHit(bits) ==
  LET hits == {n \in 1..Len(bits) : PrefixEndsWith(bits, n, END_MARKER)}
  IN  IF hits = {} THEN 0 ELSE Min(hits)

\* decode(image_array), without a password
Simple_decode(h, img) ==
  IF Len(img.shape) # 3
    THEN Raise("ValueError", "not enough values to unpack")
  ELSE
    LET data == h[img.base]
        lsbs == [i \in 1..Len(data) |-> LSB(data[i])]
        n == MarkerHit(lsbs)
        text == CharsOfBits(SubSeq(lsbs, 1, n - Len(END_MARKER)))
    IN  IF n = 0 THEN Raise("ValueError", "No hidden message found")
        ELSE IF /\ Len(text) >= Len(ENCRYPTED_PREFIX)
                /\ SubSeq(text, 1, Len(ENCRYPTED_PREFIX)) = ENCRYPTED_PREFIX
          THEN Raise("ValueError",
                     "This message is password protected. Please enter the password.")
        ELSE ReturnText(text)

\* The grids and the messages SimpleSteganography is run on: ASCII and
\* non-ASCII characters, and prefixes of the end marker inside the text.
SimpleShapes == {<<SmallSide, SmallSide, 3>>, <<8, 7, 3>>, <<10, 10>>}

SimpleMessages ==
  UNION {[1..n -> Alphabet] : n \in 0..MaxMsgLen}
    \cup {<<127, 255, 104>>, <<255, 254>>, <<127>>, PatternMsg}

InitSimple ==
  /\ \E shape \in SimpleShapes, k \in 0..(NumFills - 1) :
       /\ image = [base |-> 1, shape |-> shape]
       /\ fill = k
       /\ heap = (1 :> GridData(shape, k))
  /\ message \in SimpleMessages
  /\ current = "lsb"
  /\ stego = NoResult
  /\ used = "none"
  /\ decoded = NoResult
  /\ TextIdle
  /\ CapacityIdle
  /\ RegistryIdle
  /\ AnalysisIdle
  /\ CheckIdle
  /\ WorkersIdle
  /\ BatchIdle

\* SimpleSteganography.encode(image, message)
SimpleEncode ==
  /\ stego.kind = "none"
  /\ decoded.kind = "none"
  /\ LET r == Collect(Simple_encode(heap, image, message))
     IN  /\ heap' = r.heap
         /\ stego' = r.out
  /\ used' = "simple"
  /\ UNCHANGED <<image, fill, message, current, decoded>>
  /\ UNCHANGED notCodec

\* SimpleSteganography.decode(grid), of the grid encode returned or, when
\* nothing was encoded, of the caller's image
SimpleDecode ==
  /\ decoded.kind = "none"
  /\ stego.kind \in {"none", "grid"}
  /\ decoded' = Simple_decode(heap, IF stego.kind = "grid" THEN stego.ref
                                    ELSE image)
  /\ UNCHANGED <<heap, image, fill, message, current, stego, used>>
  /\ UNCHANGED notCodec

NextSimple ==
  \/ SimpleEncode
  \/ SimpleDecode

SpecSimple == InitSimple /\ [][NextSimple]_vars

\* The low bits of the grid the last decode read.
DecodedLSBs == [i \in 1..Len(DecodedGrid) |-> LSB(DecodedGrid[i])]

\* C28: SimpleSteganography.decode finds the end marker only at a whole
\* number of groups of 8 bits; decode of the grid encode returned for a
\* message without password whose 8 * len(message) + 16 bits fit a
\* three-channel grid returns the message; and decode of a grid without an
\* end marker fails with 'No hidden message found'.
C28_SimpleRoundTrip ==
  (decoded.kind # "none" /\ Len(image.shape) = 3) =>
    /\ MarkerHit(DecodedLSBs) % 8 = 0
    /\ (stego.kind = "grid" /\ 8 * Len(message) + 16 <= Size(image.shape))
         => decoded = ReturnText(message)
    /\ MarkerHit(DecodedLSBs) = 0
         => decoded = Raise("ValueError", "No hidden message found")


\* C29: after any sequence of register_algorithm and set_algorithm calls the
\* selection of the engine is a key of its registry; a new engine selects
\* 'lsb' and holds 'lsb', 'dct' and 'dwt'.
C29_SelectionRegistered ==
  /\ Has(registry, current)
  /\ reply = NoResult =>
       /\ current = "lsb"
       /\ Keys(registry) = <<"lsb", "dct", "dwt">>

\* set_algorithm has selected a name that register_algorithm added, after a
\* set_algorithm of an unregistered name was refused.
C29_Witness ==
  /\ reply.kind = "reply"
  /\ reply.call[1] = "set_algorithm"
  /\ reply.out = Returned
  /\ current = "custom"


(***************************************************************************)
(* BatchProcessor.batch_encode and batch_decode, run without a password,   *)
(* and the ProgressTracker they report to.  The single-file tasks run in   *)
(* a thread pool and catch their own exceptions; the calling thread takes  *)
(* the finished tasks one at a time, in the order they complete.           *)
(***************************************************************************)
MaxFiles == 3

BatchOperations == {"batch_encode", "batch_decode"}

\* What _encode_single_file or _decode_single_file returns for a file:
\* a result with 'success' True or False (both catch every Exception).
TaskOutcomes == {"success", "failure"}

\* A call of batch_encode or batch_decode that has not started yet.
BatchCall(op, name, callback, outcomes) ==
  [phase |-> "called", op |-> op, algorithm |-> name, callback |-> callback,
   outcomes |-> outcomes, pending |-> {}, results |-> NoResult,
   current_step |-> 0, calls |-> <<>>, raised |-> NoResult]

InitBatch ==
  /\ CodecIdle
  /\ TextIdle
  /\ CapacityIdle
  /\ RegistryIdle
  /\ AnalysisIdle
  /\ CheckIdle
  /\ WorkersIdle
  /\ \E op \in BatchOperations, name \in {"lsb", "dct", "missing"},
         callback \in BOOLEAN, n \in 0..MaxFiles :
       \E outcomes \in [1..n -> TaskOutcomes] :
          batch = BatchCall(op, name, callback, outcomes)

\* The results dictionary before the first task completes.
NewResults(total) ==
  [total_files |-> total, successful |-> 0, failed |-> 0, errors |-> <<>>,
   done |-> <<>>]

\* ProgressTracker.update: the step given, or one more than the current
\* step; the callback, when there is one, gets the percentage (rounded
\* down here).
Progress_update(b, step) ==
  LET total_steps == b.results.total_files
      current_step == IF step = None THEN b.current_step + 1 ELSE step.value
      reached == (current_step * 100) \div total_steps
      progress == IF reached > 100 THEN 100 ELSE reached
  IN  [b EXCEPT !.current_step = current_step,
                !.calls = IF b.callback THEN Append(@, progress) ELSE @]

\* finish without the last update
Progress_finish_silent(b) == b

\* ProgressTracker.finish: update(self.total_steps, message)
Progress_finish(b) ==
  Progress_update(b, ReturnInt(b.results.total_files))

\* The body of the loop over as_completed for the task of file f.
Completed(b, f) ==
  LET outcome == b.outcomes[f]
      entry == [file |-> f, success |-> outcome = "success"]
      results ==
        IF outcome = "success"
          THEN [b.results EXCEPT !.successful = @ + 1,
                                 !.done = Append(@, entry)]
        ELSE [b.results EXCEPT !.failed = @ + 1,
                               !.errors = Append(@, entry)]
  IN  Progress_update([b EXCEPT !.results = results,
                                !.pending = @ \ {f}], None)

\* batch_encode / batch_decode up to the thread pool: no image file found
\* and an unregistered algorithm raise ValueError; otherwise the algorithm
\* is selected and every file is submitted.
BatchBegin ==
  /\ batch.phase = "called"
  /\ IF Len(batch.outcomes) = 0
       THEN /\ batch' = [batch EXCEPT
                           !.phase = "raised",
                           !.raised = Raise("ValueError",
                                            "No supported image files found")]
            /\ current' = current
     ELSE IF ~Has(registry, batch.algorithm)
       THEN /\ batch' = [batch EXCEPT
                           !.phase = "raised",
                           !.raised = NotRegistered(batch.algorithm, registry)]
            /\ current' = current
     ELSE /\ batch' = [batch EXCEPT
                         !.phase = "running",
                         !.results = NewResults(Len(batch.outcomes)),
                         !.pending = 1..Len(batch.outcomes)]
          /\ current' = batch.algorithm
  /\ UNCHANGED <<heap, image, fill, message, stego, used, decoded>>
  /\ UNCHANGED <<textVars, capacityVars, registryVars, analysisVars,
                 checkVars, workers>>

\* One turn of the loop over as_completed: any task still pending may be
\* the next to complete.
BatchCompleted(f) ==
  /\ batch.phase = "running"
  /\ f \in batch.pending
  /\ batch' = Completed(batch, f)
  /\ UNCHANGED notBatch

\* After the loop: progress.finish(...) and return results.
BatchReturn ==
  /\ batch.phase = "running"
  /\ batch.pending = {}
  /\ batch' = [Progress_finish(batch) EXCEPT !.phase = "returned"]
  /\ UNCHANGED notBatch

NextBatch ==
  \/ BatchBegin
  \/ \E f \in 1..MaxFiles : BatchCompleted(f)
  \/ BatchReturn

SpecBatch == InitBatch /\ [][NextBatch]_vars

\* C30: in the results a batch run returns, successful + failed is
\* total_files, the success list has `successful` entries and the errors
\* list `failed` entries, and the progress callback was called once for each
\* file and once more for the final 100%.
C30_BatchAccounting ==
  batch.phase = "returned" =>
    /\ batch.results.total_files = Len(batch.outcomes)
    /\ batch.results.successful + batch.results.failed
         = batch.results.total_files
    /\ Len(batch.results.done) = batch.results.successful
    /\ Len(batch.results.errors) = batch.results.failed
    /\ batch.callback =>
         /\ Len(batch.calls) = batch.results.total_files + 1
         /\ batch.calls[Len(batch.calls)] = 100

\* A batch with a callback has returned with files of both kinds.
C30_Witness ==
  /\ batch.phase = "returned"
  /\ batch.callback
  /\ batch.results.successful >= 1
  /\ batch.results.failed >= 1

=============================================================================
